---- MODULE Spec2Model ----
(***************************************************************************)
(* NeonFSLib: the AES-GCM context pool (AESGCMCtxPool and its Handle) and  *)
(* the AES encryption provider built on it.                                *)
(*                                                                         *)
(* The pool mutex is modelled by atomicity: every action below is one      *)
(* critical section of the pool (or code that touches thread-local state   *)
(* only).  condVar.wait splits acquire() into the part before the wait and *)
(* the part after the wake-up.                                             *)
(***************************************************************************)
EXTENDS Integers, Sequences, FiniteSets, TLC

\* ---------------------------------------------------------------- bounds
NumThreads == 2
NumHandles == 3
MaxSize    == 2

Threads == 1 .. NumThreads
Handles == 1 .. NumHandles
\* one identity more than any pool may construct
Ctxs    == 1 .. (MaxSize + 1)
NoCtx   == 0
NoHandle == 0

VARIABLES
    maxPoolSize,   \* AESGCMCtxPool::maxPoolSize (const)
    currentSize,   \* AESGCMCtxPool::currentSize, the high-water counter
    pool,          \* AESGCMCtxPool::pool, the idle stack (top = last element)
    ctxState,      \* per context: "none" (not constructed), "fresh", "dirty", "clean"
    handle,        \* per Handle object: its lifetime and its members pool, ctx
    pc,            \* per thread: where it is inside acquire()
    target,        \* per thread: the Handle its running acquire() will initialise
    key_,          \* AESEncryptionProvider::key_
    call,          \* per thread: the encrypt/decrypt call it is inside, with its arguments
    ret,           \* per thread: what its last encrypt/decrypt call gave back
    drawn          \* the values RAND_bytes has returned so far

poolVars == <<maxPoolSize, currentSize, pool, ctxState, handle, pc, target>>
provVars == <<key_, call, ret, drawn>>

VARIABLES
    constructed,   \* has the BlockStorage object been constructed
    is_mounted,    \* BlockStorage::is_mounted
    path,          \* BlockStorage::path
    block_size_,   \* BlockStorage::block_size_
    total_blocks_, \* BlockStorage::total_blocks_
    filestream,    \* BlockStorage::filestream: is it open, on which file, its failbit
    disk,          \* the file system: what each path names
    wframe,        \* per thread: its writeBlock call between the checks and the lock
    sret,          \* per thread: what its last BlockStorage call gave back
    lastReads,     \* (history) right after a successful unmount: what readBlock(i)
                   \* would have returned just before it, for each i
    wbuf           \* per thread: the caller's buffer as the writeBlock call that
                   \* has just returned left it

storVars == <<constructed, is_mounted, path, block_size_, total_blocks_,
              filestream, disk, wframe, sret, lastReads, wbuf>>
VARIABLES
    heap_initialized, \* CRYPTO_secure_malloc_initialized()
    arena,            \* the secure heap's memory: per slot, the buffer lying there
    hret,             \* what the last secure-heap or allocator call gave back
    result,           \* a Result<T> object
    outcome,          \* what the last member call on it gave back
    kret              \* what the last KeyManager call was given and gave back

heapVars == <<heap_initialized, arena, hret>>
resVars  == <<result, outcome>>
keyVars  == <<kret>>
coreVars == <<heapVars, resVars, keyVars>>

vars == <<maxPoolSize, currentSize, pool, ctxState, handle, pc, target,
          key_, call, ret, drawn, storVars, coreVars>>

\* ------------------------------------------------------------ Handle
DeadHandle    == [live |-> "dead",    pool |-> FALSE, ctx |-> NoCtx]
PendingHandle == [live |-> "pending", pool |-> FALSE, ctx |-> NoCtx]

\* Handle::Handle(p, c) as called by acquire(): p = shared_from_this()
NewHandle(c) == [live |-> "live", pool |-> TRUE, ctx |-> c]

\* operator->(): ctx.get(), null for an empty Handle
HandleGet(h) == handle[h].ctx

\* the members of a Handle after the release branch of reset()
ResetKeepsLease(hr) == hr
ClearedHandle(hr) == [hr EXCEPT !.pool = FALSE, !.ctx = NoCtx]

\* ------------------------------------------------------------ pool helpers
Bottom(s) == s[1]
Top(s) == s[Len(s)]
PopKeepsTop(s) == s
Pop(s) == SubSeq(s, 1, Len(s) - 1)
PushDropped(s, c) == s
Push(s, c) == Append(s, c)

\* acquire(): "else if (currentSize < maxPoolSize)"
CanGrowOffByOne == currentSize <= maxPoolSize
CanGrowAlways == TRUE
CanGrow == currentSize < maxPoolSize

\* condVar.notify_one(): q is p with one waiting thread (if any) made runnable
NotifyLost(p, q) == q = p
NotifyOne(p, q) ==
    IF \E w \in Threads : p[w] = "waiting"
    THEN \E w \in Threads : p[w] = "waiting" /\ q = [p EXCEPT ![w] = "notified"]
    ELSE q = p

\* AESGCMCtx::reset(): EVP_CIPHER_CTX_reset
CtxResetSkipped(cs, c) == cs
CtxReset(cs, c) == [cs EXCEPT ![c] = "clean"]

\* the address of the next context make_unique<AESGCMCtx>() returns
FreshCtx == CHOOSE c \in Ctxs : ctxState[c] = "none" /\ \A d \in Ctxs : d < c => ctxState[d] # "none"

Leased == Cardinality({h \in Handles : handle[h].ctx # NoCtx})
IdleCount(c) == Cardinality({i \in 1 .. Len(pool) : pool[i] = c})
HeldCount(c) == Cardinality({h \in Handles : handle[h].ctx = c})
Blocked == {t \in Threads : pc[t] \in {"waiting", "notified"}}

\* AESGCMCtxPool::availableCount()
availableCount == Len(pool)

\* ------------------------------------------------------------ bytes
\* A byte is modelled by one bit; a buffer is a sequence of them.
Bit == {0, 1}
Const(n, b) == [i \in 1 .. n |-> b]
Xor(a, b) == (a + b) % 2
Flip(s, i) == [s EXCEPT ![i] = 1 - @]

\* AESEncryptionProvider::iv_size(), tag_size(), the key length the constructor demands
IvSize  == 12
TagSize == 16
KeySize == 32

\* ------------------------------------------------------------ more bounds
MaxPlainLen == 1
NumRand     == 2

\* the thread that calls encrypt and decrypt, one call after the other
Callers == {1}

RECURSIVE Pow2(_)
Pow2(n) == IF n = 0 THEN 1 ELSE 2 * Pow2(n - 1)

\* the k-th value RAND_bytes hands out, as iv_size() bytes: a new value at
\* each draw (which values they are does not matter to the code)
IvOf(k) == [i \in 1 .. IvSize |-> (k \div Pow2(i - 1)) % 2]

\* outIV after "outIV.resize(iv_size()); RAND_bytes(outIV.data(), outIV.size())"
\* when the generator hands out its k-th value
IvLeftZero(k) == Const(IvSize, 0)
GeneratedIv(k) == IvOf(k)

Plains == UNION {[1 .. n -> Bit] : n \in 0 .. MaxPlainLen}
Keys   == {Const(KeySize, 0), [i \in 1 .. KeySize |-> i % 2]}
TagInputs == {<<>>, Const(TagSize + 1, 1)}

\* ------------------------------------------------------------ AES-256-GCM
\* What the EVP calls compute, idealised: a keystream that depends on key, IV
\* and position, XORed onto the data, and a tag that is collision-free in
\* (IV, ciphertext) for a fixed key.
Keystream(key, iv, i) ==
    (key[((i - 1) % KeySize) + 1] + iv[((i - 1) % IvSize) + 1] + i) % 2

\* EVP_EncryptUpdate and EVP_DecryptUpdate: the same XOR in GCM
GcmUpdate(key, iv, data) ==
    [i \in 1 .. Len(data) |-> Xor(data[i], Keystream(key, iv, i))]

RECURSIVE BitsValue(_)
BitsValue(s) == IF s = <<>> THEN 0 ELSE s[1] + 2 * BitsValue(Tail(s))

\* the number of a byte string among all strings, shortest first
Code(c) == Pow2(Len(c)) - 1 + BitsValue(c)

\* the tag of (key, iv, ciphertext): GHASH of the ciphertext masked with the
\* encrypted IV block
GcmTag(key, iv, c) ==
    [i \in 1 .. TagSize |->
        IF i <= IvSize THEN Xor(iv[i], key[i])
        ELSE Xor(key[i], (Code(c) \div Pow2(i - IvSize - 1)) % 2)]

\* ------------------------------------------------------------ calls
\* the frame of a running encrypt/decrypt: its buffers, whether encrypt drew
\* the IV itself, and (history) the IV and tag of the caller's directly
\* preceding encrypt when that one also drew its IV, succeeded and had the
\* same plaintext; where decrypt's arguments came from (tamper) and, for
\* untampered arguments, the plaintext they were made from (orig)
NoCall == [op |-> "none", data |-> <<>>, iv |-> <<>>, tag |-> <<>>, gen |-> FALSE,
           prev |-> <<>>, tamper |-> "none", orig |-> <<>>]
\* what a call gave back: the Result (kind, msg, value), the buffers iv and
\* tag as encrypt left them, and (history) the argument data, the EVP call
\* that failed, where decrypt's arguments came from
NoRet  == [op |-> "none", kind |-> "none", msg |-> "", value |-> <<>>,
           data |-> <<>>, gen |-> FALSE, iv |-> <<>>, tag |-> <<>>,
           prev |-> <<>>, fault |-> "none", tamper |-> "none", orig |-> <<>>]

\* the position of a thread after its acquire() has returned
AfterAcquire(t) == IF call[t].op = "none" THEN "idle" ELSE "body"

\* ------------------------------------------------------------ block storage data
MaxBlockSize == 2
MaxTotalSize == 2

\* the thread that calls the BlockStorage operations, one after the other
Clients == {1}

\* path names: the empty string, a path for a container file, a directory
Paths == {"", "a", "d"}

\* BlockStorageConfig {block_size, total_size}
Configs == [block_size : 0 .. MaxBlockSize, total_size : 0 .. MaxTotalSize]

\* block ids callers pass, and the buffers they write (as filled by the tests:
\* n equal non-zero bytes)
BlockIds == 0 .. MaxTotalSize
Buffers  == {Const(n, 1) : n \in 0 .. (MaxBlockSize + 1)}

\* what a path names on disk
Absent    == [kind |-> "absent", bytes |-> <<>>]
Directory == [kind |-> "dir",    bytes |-> <<>>]
RegularFile(b) == [kind |-> "file", bytes |-> b]

\* a default-constructed std::fstream
ClosedStream == [open |-> FALSE, file |-> "", fail |-> FALSE]

NoFrame == [active |-> FALSE, id |-> 0, data |-> <<>>, offset |-> 0]

\* a Result<void> / Result<vector<uint8_t>> as the caller sees it: ok with a
\* value, or err with a code ("crash": the call did not return at all)
NoSRet == [op |-> "none", kind |-> "none", code |-> 0, value |-> <<>>]
SOk(op, v)     == [op |-> op, kind |-> "ok",  code |-> 0, value |-> v]
SErr(op, code) == [op |-> op, kind |-> "err", code |-> code, value |-> <<>>]
SCrash(op)     == [op |-> op, kind |-> "crash", code |-> 0, value |-> <<>>]

\* no unmount has just succeeded
NoReads == <<>>

\* Result<secure_bytes> and Result<bool> of the KeyManager
KOk(v)    == [kind |-> "ok", value |-> v, message |-> ""]
KErr(msg) == [kind |-> "err", value |-> <<>>, message |-> msg]

\* how the arguments of a verify_password relate to the derive_key before
NoGiven == [password |-> "", expected |-> ""]

NoKRet == [op |-> "none", password |-> <<>>, salt |-> <<>>, n |-> 0,
           algorithm |-> "PBKDF2_HMAC_SHA256", iterations |-> 0,
           derived |-> "", given |-> NoGiven, res |-> KErr("")]

\* no writeBlock call has just returned
NoBuf  == [held |-> FALSE, data |-> <<>>]
NoWBuf == [t \in Threads |-> NoBuf]

\* ------------------------------------------------------------ secure heap
\* the arena holds this many buffers at most
Slots == {1, 2}
\* element counts a container asks for, and the sizeof(T) of its elements
MaxElems  == 2
ElemSizes == {1, 2}

\* a slot no buffer has lain in yet
NoBuffer == [used |-> FALSE, n |-> 0, size |-> 1, bytes |-> <<>>]

NoHRet == [op |-> "none", kind |-> "none", what |-> ""]
HOk(op)          == [op |-> op, kind |-> "ok", what |-> ""]
HThrow(op, what) == [op |-> op, kind |-> "throw", what |-> what]

\* ------------------------------------------------------------ Result<T>
NoResult  == [kind |-> "none"]
NoOutcome == [op |-> "none"]

\* ------------------------------------------------------------ Init
Init ==
    /\ maxPoolSize \in 0 .. MaxSize
    /\ currentSize = 0
    /\ pool = <<>>
    /\ ctxState = [c \in Ctxs |-> "none"]
    /\ handle = [h \in Handles |-> DeadHandle]
    /\ pc = [t \in Threads |-> "idle"]
    /\ target = [t \in Threads |-> NoHandle]
    /\ key_ \in Keys
    /\ call = [t \in Threads |-> NoCall]
    /\ ret = [t \in Threads |-> NoRet]
    /\ drawn = {}
    /\ constructed = FALSE
    /\ is_mounted = FALSE
    /\ path = ""
    /\ block_size_ = 0
    /\ total_blocks_ = 0
    /\ filestream = ClosedStream
    /\ disk = [p \in Paths |-> IF p = "d" THEN Directory ELSE Absent]
    /\ wframe = [t \in Threads |-> NoFrame]
    /\ sret = [t \in Threads |-> NoSRet]
    /\ lastReads = NoReads
    /\ wbuf = NoWBuf
    /\ kret = NoKRet
    /\ heap_initialized = FALSE
    /\ arena = [s \in Slots |-> NoBuffer]
    /\ hret = NoHRet
    /\ result = NoResult
    /\ outcome = NoOutcome

\* ------------------------------------------------------------ acquire
\* acquire(), from taking the lock to the first return, unlock or wait.
\* done is the thread's position once acquire() has returned.
AcquireLocked(t, h, done) ==
    /\ UNCHANGED maxPoolSize
    /\ IF pool # <<>>
       THEN /\ pool' = Pop(pool)
            /\ handle' = [handle EXCEPT ![h] = NewHandle(Top(pool))]
            /\ pc' = [pc EXCEPT ![t] = done]
            /\ target' = [target EXCEPT ![t] = IF done = "idle" THEN NoHandle ELSE h]
            /\ UNCHANGED <<currentSize, ctxState>>
       ELSE IF CanGrow
       THEN /\ currentSize' = currentSize + 1
            /\ pc' = [pc EXCEPT ![t] = "constructing"]
            /\ handle' = [handle EXCEPT ![h] = PendingHandle]
            /\ target' = [target EXCEPT ![t] = h]
            /\ UNCHANGED <<pool, ctxState>>
       ELSE /\ pc' = [pc EXCEPT ![t] = "waiting"]
            /\ handle' = [handle EXCEPT ![h] = PendingHandle]
            /\ target' = [target EXCEPT ![t] = h]
            /\ UNCHANGED <<pool, currentSize, ctxState>>

\* a thread calls pool->acquire() and keeps the result in Handle h
Acquire(t, h) ==
    /\ pc[t] = "idle"
    /\ call[t].op = "none"
    /\ handle[h].live = "dead"
    /\ AcquireLocked(t, h, "idle")
    /\ UNCHANGED <<provVars, storVars, coreVars>>

\* acquire() after the unlock: make_unique<AESGCMCtx>() succeeds
Construct(t) ==
    /\ pc[t] = "constructing"
    /\ \E c \in Ctxs : ctxState[c] = "none"
    /\ ctxState' = [ctxState EXCEPT ![FreshCtx] = "fresh"]
    /\ handle' = [handle EXCEPT ![target[t]] = NewHandle(FreshCtx)]
    /\ pc' = [pc EXCEPT ![t] = AfterAcquire(t)]
    /\ target' = [target EXCEPT ![t] = IF call[t].op = "none" THEN NoHandle ELSE @]
    /\ UNCHANGED <<maxPoolSize, currentSize, pool>>
    /\ UNCHANGED <<provVars, storVars, coreVars>>

\* acquire() after the unlock: the AESGCMCtx constructor throws
\* (EVP_CIPHER_CTX_new returned null); the exception leaves acquire() and,
\* inside encrypt/decrypt, leaves the call
ConstructFail(t) ==
    /\ pc[t] = "constructing"
    /\ handle' = [handle EXCEPT ![target[t]] = DeadHandle]
    /\ pc' = [pc EXCEPT ![t] = "idle"]
    /\ target' = [target EXCEPT ![t] = NoHandle]
    /\ IF call[t].op = "none"
       THEN UNCHANGED <<call, ret>>
       ELSE /\ call' = [call EXCEPT ![t] = NoCall]
            /\ ret' = [ret EXCEPT ![t] =
                 [NoRet EXCEPT !.op = call[t].op, !.kind = "exc",
                               !.msg = "Failed to create EVP_CIPHER_CTX",
                               !.data = IF call[t].op = "enc" THEN call[t].data ELSE <<>>,
                               !.gen = call[t].gen,
                               !.iv = IF call[t].op = "enc" THEN call[t].iv ELSE <<>>,
                               !.tag = IF call[t].op = "enc" THEN call[t].tag ELSE <<>>,
                               !.tamper = call[t].tamper,
                               !.orig = call[t].orig, !.fault = "ctx_new"]]
    /\ UNCHANGED <<maxPoolSize, currentSize, pool, ctxState, key_, drawn, storVars, coreVars>>

\* condVar.wait(lock, pred) after a notification: re-take the lock, test
\* !pool.empty(), then take the top context or wait again
Wake(t) ==
    /\ pc[t] = "notified"
    /\ IF pool # <<>>
       THEN /\ pool' = Pop(pool)
            /\ handle' = [handle EXCEPT ![target[t]] = NewHandle(Top(pool))]
            /\ pc' = [pc EXCEPT ![t] = AfterAcquire(t)]
            /\ target' = [target EXCEPT ![t] = IF call[t].op = "none" THEN NoHandle ELSE @]
       ELSE /\ pc' = [pc EXCEPT ![t] = "waiting"]
            /\ UNCHANGED <<pool, handle, target>>
    /\ UNCHANGED <<maxPoolSize, currentSize, ctxState>>
    /\ UNCHANGED <<provVars, storVars, coreVars>>

\* a spurious wake-up of condVar.wait
SpuriousWake(t) ==
    /\ pc[t] = "waiting"
    /\ pc' = [pc EXCEPT ![t] = "notified"]
    /\ UNCHANGED <<maxPoolSize, currentSize, pool, ctxState, handle, target>>
    /\ UNCHANGED <<provVars, storVars, coreVars>>

\* ------------------------------------------------------------ release
\* AESGCMCtxPool::release(ctx) called by thread-local code whose thread
\* positions are p and with the contexts in states cs: reset, push, notify_one
Release(cs, c, p) ==
    /\ ctxState' = CtxReset(cs, c)
    /\ pool' = Push(pool, c)
    /\ NotifyOne(p, pc')

\* Handle::reset() on Handle h, whose object afterwards has lifetime state live
HandleResetTo(h, live, p) ==
    IF handle[h].pool /\ handle[h].ctx # NoCtx
    THEN /\ Release(ctxState, handle[h].ctx, p)
         /\ handle' = [handle EXCEPT ![h] = [ClearedHandle(@) EXCEPT !.live = live]]
    ELSE /\ handle' = [handle EXCEPT ![h] = [@ EXCEPT !.ctx = NoCtx, !.live = live]]
         /\ pc' = p
         /\ UNCHANGED <<ctxState, pool>>

\* is Handle h the local ctx_handle of a running encrypt/decrypt
InFrame(h) == \E t \in Threads : target[t] = h /\ call[t].op # "none"

\* handle.reset()
HandleReset(h) ==
    /\ handle[h].live = "live"
    /\ ~InFrame(h)
    /\ HandleResetTo(h, "live", pc)
    /\ UNCHANGED <<maxPoolSize, currentSize, target>>
    /\ UNCHANGED <<provVars, storVars, coreVars>>

\* ~Handle(): the Handle goes out of scope, by return or by exception
HandleDestroy(h) ==
    /\ handle[h].live = "live"
    /\ ~InFrame(h)
    /\ HandleResetTo(h, "dead", pc)
    /\ UNCHANGED <<maxPoolSize, currentSize, target>>
    /\ UNCHANGED <<provVars, storVars, coreVars>>

\* the lessee works with the context (handle->init(...), EVP calls)
HandleUse(h) ==
    /\ handle[h].live = "live"
    /\ ~InFrame(h)
    /\ handle[h].ctx # NoCtx
    /\ ctxState[handle[h].ctx] # "dirty"
    /\ ctxState' = [ctxState EXCEPT ![handle[h].ctx] = "dirty"]
    /\ UNCHANGED <<maxPoolSize, currentSize, pool, handle, pc, target>>
    /\ UNCHANGED <<provVars, storVars, coreVars>>

\* ------------------------------------------------------------ encrypt
\* the IV buffers a caller may pass: empty, too short, a fixed IV of its own,
\* or the buffer its previous encrypt left
IvInputs(t) ==
    {<<>>, <<1>>, IvOf(NumRand + 1)}
        \cup (IF ret[t].op = "enc" /\ Len(ret[t].iv) = IvSize THEN {ret[t].iv} ELSE {})

\* the local "const Handle ctx_handle" of a call
LocalHandle == CHOOSE h \in Handles :
    handle[h].live = "dead" /\ \A g \in Handles : g < h => handle[g].live # "dead"

\* (a return that comes after the tag buffer was prepared)
EarlyReturnAfterTag(t, r) ==
    /\ ret' = [ret EXCEPT ![t] = [r EXCEPT !.tag = Const(TagSize, 0)]]
    /\ UNCHANGED <<poolVars, key_, call, storVars, coreVars>>

\* encrypt/decrypt returns before it has taken a context
EarlyReturn(t, r) ==
    /\ ret' = [ret EXCEPT ![t] = r]
    /\ UNCHANGED <<poolVars, key_, call, storVars, coreVars>>

\* outTag after "outTag.resize(tag_size()); std::fill(..., 0)"
TagNotResized(tagIn) == tagIn
PreparedTag(tagIn) == Const(TagSize, 0)

\* the rest of encrypt once the IV is settled: clear the tag, acquire
EncryptProceed(t, plain, tagIn, iv, gen) ==
    /\ call' = [call EXCEPT ![t] =
         [NoCall EXCEPT !.op = "enc", !.data = plain, !.iv = iv, !.gen = gen,
                        !.tag = PreparedTag(tagIn),
                        !.prev = IF gen /\ ret[t].op = "enc" /\ ret[t].kind = "ok"
                                    /\ ret[t].gen /\ ret[t].data = plain
                                 THEN <<ret[t].iv, ret[t].tag>> ELSE <<>>]]
    /\ AcquireLocked(t, LocalHandle, "body")
    /\ UNCHANGED <<key_, ret, storVars, coreVars>>

EncErr(plain, iv, tag, msg, fault) ==
    [NoRet EXCEPT !.op = "enc", !.kind = "err", !.msg = msg, !.data = plain,
                  !.iv = iv, !.tag = tag, !.fault = fault]

\* "if (outIV.empty())"
IvBufferIgnored(outIV) == TRUE
IvBufferEmpty(outIV) == outIV = <<>>

\* encrypt(plain, outIV, outTag) up to and including the call of acquire()
EncryptCall(t, plain, ivIn, tagIn) ==
    /\ pc[t] = "idle"
    /\ call[t].op = "none"
    /\ \E h \in Handles : handle[h].live = "dead"
    /\ IF Len(key_) # KeySize
       THEN /\ EarlyReturn(t, EncErr(plain, ivIn, tagIn, "Invalid key size", "none"))
            /\ UNCHANGED drawn
       ELSE IF IvBufferEmpty(ivIn)
       THEN \/ /\ EarlyReturn(t, EncErr(plain, Const(IvSize, 0), tagIn,
                                        "Failed to generate secure IV", "rand"))
               /\ UNCHANGED drawn
            \/ \E k \in {Cardinality(drawn) + 1} \cap (1 .. NumRand) :
                 /\ drawn' = drawn \cup {k}
                 /\ EncryptProceed(t, plain, tagIn, GeneratedIv(k), TRUE)
       ELSE IF Len(ivIn) # IvSize
       THEN /\ EarlyReturn(t, EncErr(plain, ivIn, tagIn, "Invalid IV size", "none"))
            /\ UNCHANGED drawn
       ELSE /\ EncryptProceed(t, plain, tagIn, ivIn, FALSE)
            /\ UNCHANGED drawn

EncFaults == {"none", "init", "ivlen", "keyiv", "update", "final", "gettag"}

\* the message encrypt returns when the EVP call at stage f fails
EncFaultMsg(f) ==
    CASE f = "init"   -> "Failed to initialize AES-GCM encryption."
      [] f = "ivlen"  -> "Failed to set IV length."
      [] f = "keyiv"  -> "Failed to set key and IV."
      [] f = "update" -> "Encryption failed during EVP_EncryptUpdate."
      [] f = "final"  -> "Encryption failed during EVP_EncryptFinal_ex."
      [] f = "gettag" -> "Failed to retrieve authentication tag."

\* "ciphertext.resize(ciphertext_len)" with ciphertext_len the bytes written
ResizeOneShort(ciphertext, n) == SubSeq(ciphertext, 1, n - 1)
Resize(ciphertext, n) == SubSeq(ciphertext, 1, n)

\* encrypt after acquire(): what it returns and leaves in the buffers when
\* the EVP call at stage f fails (f = "none": none fails)
EncryptOutcome(c, f) ==
    LET base == [NoRet EXCEPT !.op = "enc", !.data = c.data, !.gen = c.gen,
                              !.iv = c.iv, !.tag = c.tag, !.prev = c.prev, !.fault = f]
        \* secure_bytes ciphertext(plain.size() + EVP_MAX_BLOCK_LENGTH), the
        \* first len bytes written by EVP_EncryptUpdate, none by the final call
        written == GcmUpdate(key_, c.iv, c.data)
        ciphertext_len == Len(written) + 0
        \* EVP_CTRL_GCM_GET_TAG copies outTag.size() bytes, which must be 1..16
        tagFits == Len(c.tag) >= 1 /\ Len(c.tag) <= 16
    IN  IF f \notin {"none", "gettag"}
        THEN [base EXCEPT !.kind = "err", !.msg = EncFaultMsg(f)]
        ELSE IF ciphertext_len # Len(c.data)
        THEN [base EXCEPT !.kind = "err", !.msg = "Ciphertext size does not match plaintext size."]
        ELSE IF f = "gettag" \/ ~tagFits
        THEN [base EXCEPT !.kind = "err", !.msg = EncFaultMsg("gettag")]
        ELSE [base EXCEPT !.kind = "ok", !.value = Resize(written, ciphertext_len),
                          !.tag = SubSeq(GcmTag(key_, c.iv, written), 1, Len(c.tag))]

\* the end of an encrypt/decrypt call that holds ctx_handle: the Handle is
\* destroyed (by return or by unwinding) and r goes to the caller
LeaveCall(t, r) ==
    LET h == target[t]
        c == handle[h].ctx
    IN  /\ Release([ctxState EXCEPT ![c] = "dirty"], c, [pc EXCEPT ![t] = "idle"])
        /\ handle' = [handle EXCEPT ![h] = [ClearedHandle(@) EXCEPT !.live = "dead"]]
        /\ target' = [target EXCEPT ![t] = NoHandle]
        /\ call' = [call EXCEPT ![t] = NoCall]
        /\ ret' = [ret EXCEPT ![t] = r]
        /\ UNCHANGED <<maxPoolSize, currentSize, key_, drawn, storVars, coreVars>>

\* encrypt from the first EVP call to its return
EncryptBody(t) ==
    /\ pc[t] = "body"
    /\ call[t].op = "enc"
    /\ \E f \in EncFaults : LeaveCall(t, EncryptOutcome(call[t], f))

\* ------------------------------------------------------------ decrypt
\* an error Result of decrypt from before acquire(); iv and tag are the
\* caller's buffers as the call leaves them
DecErr(msg, iv, tag, tamper, orig) ==
    [NoRet EXCEPT !.op = "dec", !.kind = "err", !.msg = msg, !.iv = iv, !.tag = tag,
                  !.tamper = tamper, !.orig = orig]

\* decrypt(cipher, iv, tag) up to and including the call of acquire()
DecryptArgs(t, cipher, iv, tag, tamper, orig) ==
    /\ pc[t] = "idle"
    /\ call[t].op = "none"
    /\ \E h \in Handles : handle[h].live = "dead"
    /\ UNCHANGED drawn
    /\ IF Len(key_) # KeySize
       THEN EarlyReturn(t, DecErr("Invalid key size", iv, tag, tamper, orig))
       ELSE IF iv = <<>> \/ Len(iv) # IvSize
       THEN EarlyReturn(t, DecErr("Invalid IV: must be exactly 12 bytes", iv, tag, tamper, orig))
       ELSE IF tag = <<>> \/ Len(tag) # TagSize
       THEN EarlyReturn(t, DecErr("Invalid tag: must be exactly 16 bytes", iv, tag, tamper, orig))
       ELSE IF cipher = <<>>
       THEN EarlyReturn(t, DecErr("Ciphertext cannot be empty", iv, tag, tamper, orig))
       ELSE /\ call' = [call EXCEPT ![t] =
                 [NoCall EXCEPT !.op = "dec", !.data = cipher, !.iv = iv, !.tag = tag,
                                !.tamper = tamper, !.orig = orig]]
            /\ AcquireLocked(t, LocalHandle, "body")
            /\ UNCHANGED <<key_, ret, storVars, coreVars>>

\* the caller decrypts what its last successful encrypt produced, unchanged
\* or with one bit of the ciphertext, the IV or the tag flipped
DecryptCall(t) ==
    /\ ret[t].op = "enc"
    /\ ret[t].kind = "ok"
    /\ LET r == ret[t]
       IN  \/ DecryptArgs(t, r.value, r.iv, r.tag, "none", r.data)
           \/ \E i \in 1 .. Len(r.value) :
                DecryptArgs(t, Flip(r.value, i), r.iv, r.tag, "C", <<>>)
           \/ \E i \in 1 .. Len(r.iv) :
                DecryptArgs(t, r.value, Flip(r.iv, i), r.tag, "IV", <<>>)
           \/ \E i \in 1 .. Len(r.tag) :
                DecryptArgs(t, r.value, r.iv, Flip(r.tag, i), "T", <<>>)

\* the caller decrypts buffers that come from elsewhere
DecryptForged(t) ==
    \E cipher \in {<<>>, <<1>>}, iv \in {<<>>, IvOf(1), Const(IvSize + 1, 0)},
       tag \in {<<>>, Const(TagSize, 0), Const(TagSize + 1, 0)} :
        DecryptArgs(t, cipher, iv, tag, "forged", <<>>)

DecFaults == {"none", "init", "ivlen", "keyiv", "update", "settag", "final"}

\* the return value of EVP_DecryptFinal_ex: positive when the tag computed
\* over the ciphertext equals the tag bound with EVP_CTRL_GCM_SET_TAG
FinalUnchecked(cipher, iv, tag, f) == 1
DecryptFinal(cipher, iv, tag, f) ==
    IF f # "final" /\ GcmTag(key_, iv, cipher) = tag THEN 1 ELSE 0

\* how a failure of EVP_DecryptUpdate leaves decrypt:
\* "throw Result<secure_bytes>::err(...)"
UpdateFailureKind == "exc"

\* decrypt after acquire(): what reaches the caller when the EVP call at
\* stage f fails (f = "none": none fails, the tag comparison decides)
DecryptOutcome(c, f) ==
    LET base == [NoRet EXCEPT !.op = "dec", !.tamper = c.tamper, !.orig = c.orig, !.fault = f]
        plaintext == GcmUpdate(key_, c.iv, c.data)
        finalRet == DecryptFinal(c.data, c.iv, c.tag, f)
    IN  CASE f = "init"   -> [base EXCEPT !.kind = "err", !.msg = "Failed to initialize AES-GCM decryption."]
          [] f = "ivlen"  -> [base EXCEPT !.kind = "err", !.msg = "Failed to set IV length."]
          [] f = "keyiv"  -> [base EXCEPT !.kind = "err", !.msg = "Failed to set key/IV."]
          [] f = "update" -> [base EXCEPT !.kind = UpdateFailureKind,
                                          !.msg = "Decryption failed during EVP_DecryptUpdate."]
          [] f = "settag" -> [base EXCEPT !.kind = "err", !.msg = "Failed to set authentication tag."]
          [] OTHER ->
                IF finalRet <= 0
                THEN [base EXCEPT !.kind = "err",
                                  !.msg = "Decryption failed: Invalid tag or corrupted data."]
                ELSE [base EXCEPT !.kind = "ok", !.value = plaintext]

\* decrypt from the first EVP call to its return or throw
DecryptBody(t) ==
    /\ pc[t] = "body"
    /\ call[t].op = "dec"
    /\ \E f \in DecFaults : LeaveCall(t, DecryptOutcome(call[t], f))

ProviderNext ==
    \/ \E t \in Callers, plain \in Plains, tagIn \in TagInputs :
         \E ivIn \in IvInputs(t) : EncryptCall(t, plain, ivIn, tagIn)
    \/ \E t \in Callers : DecryptCall(t)
    \/ \E t \in Callers : DecryptForged(t)
    \/ \E t \in Callers : EncryptBody(t)
    \/ \E t \in Callers : DecryptBody(t)
    \/ \E t \in Callers : Construct(t)
    \/ \E t \in Callers : ConstructFail(t)
    \/ \E t \in Callers : Wake(t)
    \/ \E t \in Callers : SpuriousWake(t)

\* a provider with one caller never leases a second context: pool sizes
\* above 1 behave like 1
ProviderInit == Init /\ maxPoolSize <= 1

ProviderSpec == ProviderInit /\ [][ProviderNext]_vars

Next ==
    \/ \E t \in Threads, h \in Handles : Acquire(t, h)
    \/ \E t \in Threads : Construct(t)
    \/ \E t \in Threads : ConstructFail(t)
    \/ \E t \in Threads : Wake(t)
    \/ \E t \in Threads : SpuriousWake(t)
    \/ \E h \in Handles : HandleReset(h)
    \/ \E h \in Handles : HandleDestroy(h)
    \/ \E h \in Handles : HandleUse(h)

Spec == Init /\ [][Next]_vars

\* the scheduler lets a notified waiter run
FairSpec == Spec /\ \A t \in Threads : WF_vars(Wake(t))

\* ------------------------------------------------------------ Handle moves
\* A Handle that was moved from stays alive (live = "moved") until it is
\* destroyed or assigned to.

\* the members of the source after "pool = std::move(other.pool);
\* ctx = std::move(other.ctx)": both null
MoveCopies(hr) == hr
MovedFrom(hr) == [live |-> "moved", pool |-> FALSE, ctx |-> NoCtx]

\* the members of the destination: those the source had
MovedTo(hr) == [live |-> "live", pool |-> hr.pool, ctx |-> hr.ctx]

\* is the Handle an object a move may name
Movable(h) == handle[h].live \in {"live", "moved"} /\ ~InFrame(h)

\* Handle(Handle&&) = default: a new Handle dst is built from src
MoveConstruct(src, dst) ==
    /\ Movable(src)
    /\ handle[dst].live = "dead"
    /\ handle' = [handle EXCEPT ![dst] = MovedTo(handle[src]),
                                ![src] = MovedFrom(handle[src])]
    /\ UNCHANGED <<maxPoolSize, currentSize, pool, ctxState, pc, target>>
    /\ UNCHANGED <<provVars, storVars, coreVars>>

\* operator=(Handle&&): does "reset()" find a lease to give back
AssignKeepsOld(hr) == FALSE
AssignReleases(hr) == hr.pool /\ hr.ctx # NoCtx

\* Handle::operator=(Handle&& other): dst = std::move(src)
MoveAssign(dst, src) ==
    /\ Movable(dst)
    /\ Movable(src)
    /\ IF dst = src
       THEN UNCHANGED <<handle, pool, ctxState, pc>>
       ELSE /\ IF AssignReleases(handle[dst])
               THEN Release(ctxState, handle[dst].ctx, pc)
               ELSE UNCHANGED <<pool, ctxState, pc>>
            /\ handle' = [handle EXCEPT ![dst] = MovedTo(handle[src]),
                                        ![src] = MovedFrom(handle[src])]
    /\ UNCHANGED <<maxPoolSize, currentSize, target>>
    /\ UNCHANGED <<provVars, storVars, coreVars>>

\* ~Handle() of a Handle that was moved from
DestroyMoved(h) ==
    /\ handle[h].live = "moved"
    /\ HandleResetTo(h, "dead", pc)
    /\ UNCHANGED <<maxPoolSize, currentSize, target>>
    /\ UNCHANGED <<provVars, storVars, coreVars>>

MoveNext ==
    \/ Next
    \/ \E src, dst \in Handles : MoveConstruct(src, dst)
    \/ \E dst, src \in Handles : MoveAssign(dst, src)
    \/ \E h \in Handles : DestroyMoved(h)

\* the provider's key plays no part in the pool
MoveInit == Init /\ key_ = Const(KeySize, 0)

MoveSpec == MoveInit /\ [][MoveNext]_vars

\* ------------------------------------------------------------ concurrent callers
\* a thread decrypts, unchanged, the triplet the last successful encrypt of
\* thread u left in the shared buffers cipher, iv, tag
DecryptShared(t, u) ==
    /\ ret[u].op = "enc"
    /\ ret[u].kind = "ok"
    /\ DecryptArgs(t, ret[u].value, ret[u].iv, ret[u].tag, "none", ret[u].data)

\* the buffers of the calls threads make on one provider at the same time
SharedPlain == <<1>>

\* any number of threads inside encrypt and decrypt of one provider at once
ConcNext ==
    \/ \E t \in Threads : EncryptCall(t, SharedPlain, <<>>, <<>>)
    \/ \E t \in Threads : \E u \in Callers : DecryptShared(t, u)
    \/ \E t \in Threads : EncryptBody(t)
    \/ \E t \in Threads : DecryptBody(t)
    \/ \E t \in Threads : Construct(t)
    \/ \E t \in Threads : ConstructFail(t)
    \/ \E t \in Threads : Wake(t)
    \/ \E t \in Threads : SpuriousWake(t)

\* a provider built with a pool of size >= 1
ConcInit == Init /\ maxPoolSize >= 1

ConcSpec == ConcInit /\ [][ConcNext]_vars

\* a thread that can run does run: it finishes a construction and the EVP
\* calls it has begun, and a notified waiter that finds a context on the
\* stack again and again gets one in the end
FairConcSpec ==
    /\ ConcSpec
    /\ \A t \in Threads :
         /\ WF_vars(Construct(t))
         /\ WF_vars(EncryptBody(t))
         /\ WF_vars(DecryptBody(t))
         /\ WF_vars(Wake(t))
         /\ SF_vars(Wake(t) /\ pool # <<>>)

\* ------------------------------------------------------------ block storage
\* The stream mutex is modelled by atomicity: an action is one critical
\* section of file_stream_mutex, or code that runs without it.  The file
\* system is reliable: an open, seek, read or write fails only for the
\* reasons the state gives (no such file, a directory, a closed or failed
\* stream, the end of the file).

\* a call that divided by zero has ended the process
Crashed == \E t \in Threads : sret[t].kind = "crash"

\* thread t is between two calls on a live object
StorIdle(t) == constructed /\ ~wframe[t].active /\ ~Crashed

SReturn(t, r) == sret' = [sret EXCEPT ![t] = r]

\* a BlockStorage object comes to life: no constructor and no member
\* initializer gives is_mounted a value, so it holds whatever was in memory
BlockStorageCtor(t) ==
    /\ ~constructed
    /\ ~Crashed
    /\ constructed' = TRUE
    /\ is_mounted' \in BOOLEAN
    /\ SReturn(t, SOk("ctor", <<>>))
    /\ UNCHANGED <<path, block_size_, total_blocks_, filestream, disk, wframe>>
    /\ lastReads' = NoReads
    /\ wbuf' = NoWBuf
    /\ UNCHANGED <<poolVars, provVars, coreVars>>

\* filestream.open(path, binary | in | out): needs an existing regular file
\* and a stream that is not open yet
CanOpen(p) == ~filestream.open /\ disk[p].kind = "file"

\* the geometry mount stores from its config
MountedBlockSize(_config)   == _config.block_size
MountedTotalBlocks(_config) == _config.total_size

\* the file behind a stream opened with binary | in | out: as it was (these
\* flags do not truncate)
OpenTruncates(f) == RegularFile(<<>>)
OpenedFile(f) == f

\* BlockStorage::mount(_path, _config)
Mount(t, _path, _config) ==
    /\ StorIdle(t)
    /\ IF is_mounted
       THEN /\ SReturn(t, SErr("mount", -1))
            /\ UNCHANGED <<is_mounted, path, block_size_, total_blocks_, filestream, disk>>
       ELSE IF _path = ""
       THEN /\ SReturn(t, SErr("mount", -2))
            /\ UNCHANGED <<is_mounted, path, block_size_, total_blocks_, filestream, disk>>
       ELSE /\ path' = _path
            /\ IF CanOpen(_path)
               THEN /\ filestream' = [open |-> TRUE, file |-> _path, fail |-> FALSE]
                    /\ disk' = [disk EXCEPT ![_path] = OpenedFile(@)]
                    /\ is_mounted' = TRUE
                    /\ block_size_' = MountedBlockSize(_config)
                    /\ total_blocks_' = MountedTotalBlocks(_config)
                    /\ SReturn(t, SOk("mount", <<>>))
               ELSE /\ filestream' = [filestream EXCEPT !.fail = TRUE]
                    /\ SReturn(t, SErr("mount", -3))
                    /\ UNCHANGED <<is_mounted, block_size_, total_blocks_, disk>>
    /\ UNCHANGED <<constructed, wframe, lastReads>>
    /\ wbuf' = NoWBuf
    /\ UNCHANGED <<poolVars, provVars, coreVars>>

\* BlockStorage::getBlockCount(), getBlockSize()
getBlockCount == total_blocks_
getBlockSize  == block_size_

\* seekg/seekp succeed on an open stream with no failbit; else they set failbit
StreamUsable == filestream.open /\ ~filestream.fail

Min(a, b) == IF a < b THEN a ELSE b
Max(a, b) == IF a < b THEN b ELSE a

\* BlockStorage::readBlock(blockID): its Result, and failbit afterwards
ReadBlockResult(blockID) ==
    IF ~is_mounted
    THEN [res |-> SErr("read", -1), fail |-> filestream.fail]
    ELSE IF blockID >= getBlockCount
    THEN [res |-> SErr("read", -2), fail |-> filestream.fail]
    ELSE IF ~StreamUsable
    THEN [res |-> SErr("read", -3), fail |-> TRUE]
    ELSE LET offset == blockID * block_size_
             bytes  == disk[filestream.file].bytes
             avail  == IF offset >= Len(bytes) THEN 0 ELSE Len(bytes) - offset
             gcount == Min(block_size_, avail)
         IN  IF gcount # block_size_
             THEN [res |-> SErr("read", -4), fail |-> TRUE]
             ELSE [res |-> SOk("read", SubSeq(bytes, offset + 1, offset + block_size_)),
                   fail |-> FALSE]

\* BlockStorage::unmount(): close() of a stream that is not open sets failbit
Unmount(t) ==
    /\ StorIdle(t)
    /\ IF ~is_mounted
       THEN /\ SReturn(t, SErr("unmount", -1))
            /\ lastReads' = NoReads
            /\ UNCHANGED <<is_mounted, filestream>>
       ELSE /\ filestream' = [open |-> FALSE, file |-> "",
                              fail |-> filestream.fail \/ ~filestream.open]
            /\ is_mounted' = FALSE
            /\ SReturn(t, SOk("unmount", <<>>))
            /\ lastReads' = [i \in BlockIds |-> ReadBlockResult(i).res]
    /\ UNCHANGED <<constructed, path, block_size_, total_blocks_, disk, wframe>>
    /\ wbuf' = NoWBuf
    /\ UNCHANGED <<poolVars, provVars, coreVars>>

\* BlockStorage::isMounted()
isMounted == is_mounted

IsMountedCall(t) ==
    /\ StorIdle(t)
    /\ SReturn(t, SOk("isMounted", <<IF isMounted THEN 1 ELSE 0>>))
    /\ UNCHANGED <<constructed, is_mounted, path, block_size_, total_blocks_,
                   filestream, disk, wframe>>
    /\ lastReads' = NoReads
    /\ wbuf' = NoWBuf
    /\ UNCHANGED <<poolVars, provVars, coreVars>>

\* create(): "size_t block_count = config.block_size / config.total_size"
CreateBlockCount(config) == config.block_size \div config.total_size

\* create() from the test of block_count on
CreateFrom(t, p, config, block_count) ==
    IF block_count < 1
    THEN SReturn(t, SErr("create", -1)) /\ UNCHANGED disk
    ELSE IF p = ""
    THEN SReturn(t, SErr("create", -2)) /\ UNCHANGED disk
    ELSE IF disk[p].kind = "dir"
    THEN SReturn(t, SErr("create", -3)) /\ UNCHANGED disk
    ELSE /\ disk' = [disk EXCEPT ![p] = RegularFile(Const(config.block_size * block_count, 0))]
         /\ SReturn(t, SOk("create", <<>>))

\* BlockStorage::create(path, config), static.  With total_size = 0 the
\* division has no defined result: the process traps, or the quotient is 0.
Create(t, p, config) ==
    /\ ~wframe[t].active
    /\ ~Crashed
    /\ IF config.total_size = 0
       THEN \/ SReturn(t, SCrash("create")) /\ UNCHANGED disk
            \/ CreateFrom(t, p, config, 0)
       ELSE CreateFrom(t, p, config, CreateBlockCount(config))
    /\ UNCHANGED <<constructed, is_mounted, path, block_size_, total_blocks_,
                   filestream, wframe>>
    /\ lastReads' = NoReads
    /\ wbuf' = NoWBuf
    /\ UNCHANGED <<poolVars, provVars, coreVars>>

\* BlockStorage::readBlock(blockID) as one critical section
ReadBlock(t, blockID) ==
    /\ StorIdle(t)
    /\ SReturn(t, ReadBlockResult(blockID).res)
    /\ filestream' = [filestream EXCEPT !.fail = ReadBlockResult(blockID).fail]
    /\ UNCHANGED <<constructed, is_mounted, path, block_size_, total_blocks_, disk, wframe>>
    /\ lastReads' = NoReads
    /\ wbuf' = NoWBuf
    /\ UNCHANGED <<poolVars, provVars, coreVars>>

\* (a writeBlock that pads a copy and leaves the buffer alone)
PadNone(data, n) == data

\* writeBlock: data after "data.insert(data.end(), padding...)"
Pad(data, n) == data \o Const(n - Len(data), 0)

\* the caller's vector, passed by reference, as the call leaves it
Left(t, data) == [NoWBuf EXCEPT ![t] = [held |-> TRUE, data |-> data]]

\* BlockStorage::writeBlock(blockID, data) up to the lock: the checks, the
\* padding of the caller's buffer, the offset
WriteBlockCheck(t, blockID, data) ==
    /\ StorIdle(t)
    /\ IF ~is_mounted
       THEN SReturn(t, SErr("write", -1)) /\ wbuf' = Left(t, data) /\ UNCHANGED wframe
       ELSE IF blockID >= getBlockCount
       THEN SReturn(t, SErr("write", -2)) /\ wbuf' = Left(t, data) /\ UNCHANGED wframe
       ELSE IF Len(data) > block_size_
       THEN SReturn(t, SErr("write", -3)) /\ wbuf' = Left(t, data) /\ UNCHANGED wframe
       ELSE /\ wframe' = [wframe EXCEPT ![t] =
                 [active |-> TRUE, id |-> blockID, data |-> Pad(data, block_size_),
                  offset |-> blockID * block_size_]]
            /\ wbuf' = NoWBuf
            /\ UNCHANGED sret
    /\ UNCHANGED <<constructed, is_mounted, path, block_size_, total_blocks_,
                   filestream, disk>>
    /\ lastReads' = NoReads
    /\ UNCHANGED <<poolVars, provVars, coreVars>>

\* the bytes "filestream.write(data.data(), block_size_)" takes from the
\* buffer: n bytes, those past the end of the buffer being whatever is there
WrittenBytes(data, n) ==
    IF n <= Len(data) THEN {SubSeq(data, 1, n)}
    ELSE {data \o g : g \in [1 .. (n - Len(data)) -> Bit]}

\* (a write that ignores the seek)
WriteAtStart(bytes, offset, w) ==
    IF w = <<>> THEN bytes
    ELSE [i \in 1 .. Max(Len(bytes), Len(w)) |-> IF i <= Len(w) THEN w[i] ELSE bytes[i]]

\* (a write whose second half lands later)
WriteTorn(bytes, offset, w) ==
    IF w = <<>> THEN bytes
    ELSE [i \in 1 .. Max(Len(bytes), offset + Len(w)) |->
            IF i > offset /\ i <= offset + 1 THEN w[i - offset]
            ELSE IF i <= Len(bytes) THEN bytes[i] ELSE 0]

\* a file after w was written at offset: a write past the end extends the
\* file, the gap reading as zeros
WriteAt(bytes, offset, w) ==
    IF w = <<>> THEN bytes
    ELSE [i \in 1 .. Max(Len(bytes), offset + Len(w)) |->
            IF i > offset /\ i <= offset + Len(w) THEN w[i - offset]
            ELSE IF i <= Len(bytes) THEN bytes[i] ELSE 0]

\* writeBlock under the lock: seekp, write
WriteBlockLocked(t) ==
    /\ wframe[t].active
    /\ ~Crashed
    /\ IF ~StreamUsable
       THEN /\ filestream' = [filestream EXCEPT !.fail = TRUE]
            /\ SReturn(t, SErr("write", -4))
            /\ UNCHANGED disk
       ELSE /\ \E w \in WrittenBytes(wframe[t].data, block_size_) :
                 disk' = [disk EXCEPT ![filestream.file] =
                            RegularFile(WriteAt(@.bytes, wframe[t].offset, w))]
            /\ SReturn(t, SOk("write", <<>>))
            /\ UNCHANGED filestream
    /\ wframe' = [wframe EXCEPT ![t] = NoFrame]
    /\ wbuf' = Left(t, wframe[t].data)
    /\ UNCHANGED <<constructed, is_mounted, path, block_size_, total_blocks_>>
    /\ lastReads' = NoReads
    /\ UNCHANGED <<poolVars, provVars, coreVars>>

\* the code of an err(...) built without one
DefaultCode == 0

\* BlockStorage::flush()
Flush(t) ==
    /\ StorIdle(t)
    /\ IF ~is_mounted
       THEN SReturn(t, SErr("flush", DefaultCode))
       ELSE IF filestream.fail
       THEN SReturn(t, SErr("flush", DefaultCode))
       ELSE SReturn(t, SOk("flush", <<>>))
    /\ UNCHANGED <<constructed, is_mounted, path, block_size_, total_blocks_,
                   filestream, disk, wframe>>
    /\ lastReads' = NoReads
    /\ wbuf' = NoWBuf
    /\ UNCHANGED <<poolVars, provVars, coreVars>>

StorageNext ==
    \/ \E t \in Clients : BlockStorageCtor(t)
    \/ \E t \in Clients, p \in Paths, config \in Configs : Create(t, p, config)
    \/ \E t \in Clients, p \in Paths, config \in Configs : Mount(t, p, config)
    \/ \E t \in Clients : Unmount(t)
    \/ \E t \in Clients : IsMountedCall(t)
    \/ \E t \in Clients, id \in BlockIds : ReadBlock(t, id)
    \/ \E t \in Clients, id \in BlockIds, data \in Buffers : WriteBlockCheck(t, id, data)
    \/ \E t \in Clients : WriteBlockLocked(t)
    \/ \E t \in Clients : Flush(t)

\* the pool and the provider play no part in the storage
StorageInit == Init /\ maxPoolSize = 0 /\ key_ = Const(KeySize, 0)

StorageSpec == StorageInit /\ [][StorageNext]_vars

\* ------------------------------------------------------------ mount sessions
\* The life of one instance as the tests run it: the container file is
\* created first, the instance is constructed and mounted, blocks are written
\* and read, and after an unmount the same path is mounted again with the
\* same config.

\* the fixture creates a container file before the instance exists
CreateFirst(t, p, config) ==
    /\ ~constructed
    /\ Create(t, p, config)

\* mount on an instance that has no geometry yet
MountFirst(t, p, config) ==
    /\ block_size_ = 0
    /\ total_blocks_ = 0
    /\ Mount(t, p, config)

\* mount of the path and the config of the mount before
MountAgain(t) ==
    \E config \in Configs :
        /\ block_size_ + total_blocks_ > 0
        /\ MountedBlockSize(config) = block_size_
        /\ MountedTotalBlocks(config) = total_blocks_
        /\ Mount(t, path, config)

SessionNext ==
    \/ \E t \in Clients, p \in Paths, config \in Configs : CreateFirst(t, p, config)
    \/ \E t \in Clients : BlockStorageCtor(t)
    \/ \E t \in Clients, p \in Paths, config \in Configs : MountFirst(t, p, config)
    \/ \E t \in Clients : MountAgain(t)
    \/ \E t \in Clients : Unmount(t)
    \/ \E t \in Clients, id \in BlockIds : ReadBlock(t, id)
    \/ \E t \in Clients, id \in BlockIds, data \in Buffers : WriteBlockCheck(t, id, data)
    \/ \E t \in Clients : WriteBlockLocked(t)

SessionSpec == StorageInit /\ [][SessionNext]_vars

\* ------------------------------------------------------------ concurrent round trips
\* The Concurrency test: the main thread creates the file, constructs and
\* mounts the instance, then every thread writes and reads back blocks that
\* no other thread uses.

\* the block of thread t and the bytes it writes there: a block full of a
\* byte value of its own
OwnBlock(t) == t - 1
OwnData(t)  == Const(block_size_, t)

\* the main thread has mounted the instance and the threads run
ThreadsRun == constructed /\ is_mounted /\ filestream.open

\* no thread has made a call yet: the main thread is still setting up
SettingUp == ~ThreadsRun /\ \A t \in Threads : sret[t].op \notin {"write", "read", "unmount"}

SetUpCreate(p, config) == SettingUp /\ CreateFirst(1, p, config)
SetUpCtor == BlockStorageCtor(1)
SetUpMount(p, config) == SettingUp /\ MountFirst(1, p, config)

\* thread t calls writeBlock(block_id, data)
WriteOwn(t) ==
    /\ ThreadsRun
    /\ sret[t].op # "write"
    /\ WriteBlockCheck(t, OwnBlock(t), OwnData(t))

\* thread t calls readBlock(block_id) after its writeBlock has returned
ReadOwn(t) ==
    /\ ThreadsRun
    /\ sret[t].op = "write"
    /\ ReadBlock(t, OwnBlock(t))

RoundTripNext ==
    \/ \E p \in Paths, config \in Configs : SetUpCreate(p, config)
    \/ SetUpCtor
    \/ \E p \in Paths, config \in Configs : SetUpMount(p, config)
    \/ \E t \in Threads : WriteOwn(t)
    \/ \E t \in Threads : WriteBlockLocked(t)
    \/ \E t \in Threads : ReadOwn(t)

RoundTripSpec == StorageInit /\ [][RoundTripNext]_vars

\* ------------------------------------------------------------ unmount races
\* as above, and any thread may call unmount() while the others are inside
\* their calls
RaceUnmount(t) == ThreadsRun /\ Unmount(t)

RaceNext ==
    \/ \E p \in Paths, config \in Configs : SetUpCreate(p, config)
    \/ SetUpCtor
    \/ \E p \in Paths, config \in Configs : SetUpMount(p, config)
    \/ \E t \in Threads : WriteOwn(t)
    \/ \E t \in Threads : WriteBlockLocked(t)
    \/ \E t \in Threads : ReadOwn(t)
    \/ \E t \in Threads : RaceUnmount(t)

RaceSpec == StorageInit /\ [][RaceNext]_vars

\* ------------------------------------------------------------ one block, two threads
\* as in the Concurrency test, but two threads write and read the same
\* block: a full block of its own byte value, or one byte less (which
\* writeBlock pads)
SharedBlock == 0
Sharers == {1, 2}

SharedData(t) ==
    {Const(n, t) : n \in {block_size_, Max(block_size_, 1) - 1}}

WriteShared(t, data) ==
    /\ ThreadsRun
    /\ WriteBlockCheck(t, SharedBlock, data)

ReadShared(t) ==
    /\ ThreadsRun
    /\ ReadBlock(t, SharedBlock)

SharedNext ==
    \/ \E p \in Paths, config \in Configs : SetUpCreate(p, config)
    \/ SetUpCtor
    \/ \E p \in Paths, config \in Configs : SetUpMount(p, config)
    \/ \E t \in Sharers : \E data \in SharedData(t) : WriteShared(t, data)
    \/ \E t \in Sharers : WriteBlockLocked(t)
    \/ \E t \in Sharers : ReadShared(t)

SharedSpec == StorageInit /\ [][SharedNext]_vars

\* ------------------------------------------------------------ secure_allocator
\* size_t, narrowed; the bytes one slot of the arena can hold
SizeMax   == 15
SlotBytes == 2 * MaxElems
nullptr   == 0

\* std::numeric_limits<std::size_t>::max() / sizeof(T)
max_size(size) == SizeMax \div size

total_bytes(n, size) == n * size

\* the first num bytes of the memory, the rest zero-filled or cut
Fit(bytes, num) == [i \in 1 .. num |-> IF i <= Len(bytes) THEN bytes[i] ELSE 0]

\* OPENSSL_secure_malloc: the memory at the slot as it lies there
secure_malloc(slot, num) ==
    [used |-> TRUE, n |-> 0, size |-> 1, bytes |-> Fit(slot.bytes, num)]

\* OPENSSL_secure_free: the memory goes back as it is
secure_free(bytes, num) == bytes

\* OPENSSL_secure_clear_free: num bytes are wiped, then the memory goes back
secure_clear_free(bytes, num) ==
    [i \in 1 .. Len(bytes) |-> IF i <= num THEN 0 ELSE bytes[i]]

\* deallocate(p, n) of the buffer lying in the slot
Deallocated(slot, n) ==
    [used |-> FALSE, n |-> 0, size |-> 1,
     bytes |-> secure_clear_free(slot.bytes, total_bytes(n, slot.size))]

Outstanding == {s \in Slots : arena[s].used}

initialize_secure_heap ==
    /\ IF heap_initialized
         THEN /\ hret' = HOk("initialize")
              /\ UNCHANGED <<heap_initialized, arena>>
         ELSE \/ /\ heap_initialized' = TRUE
                 /\ arena' = [s \in Slots |-> NoBuffer]
                 /\ hret' = HOk("initialize")
              \/ /\ hret' = HThrow("initialize", "Failed to initialize OpenSSL secure heap")
                 /\ UNCHANGED <<heap_initialized, arena>>
    /\ UNCHANGED <<poolVars, provVars, storVars, resVars, keyVars>>

\* CRYPTO_secure_malloc_done() gives 0 while memory of the heap is in use
cleanup_secure_heap ==
    /\ IF heap_initialized
         THEN IF Outstanding # {}
                THEN /\ hret' = HThrow("cleanup", "Failed to shut down OpenSSL secure heap")
                     /\ UNCHANGED <<heap_initialized, arena>>
                ELSE /\ heap_initialized' = FALSE
                     /\ arena' = [s \in Slots |-> NoBuffer]
                     /\ hret' = HOk("cleanup")
         ELSE /\ hret' = HOk("cleanup")
              /\ UNCHANGED <<heap_initialized, arena>>
    /\ UNCHANGED <<poolVars, provVars, storVars, resVars, keyVars>>

\* allocate(n) of a secure_allocator<T> with sizeof(T) = size; s is the slot
\* OPENSSL_secure_malloc would take
allocate(s, n, size) ==
    /\ IF n = 0
         THEN /\ hret' = HOk("allocate")
              /\ UNCHANGED arena
         ELSE IF n > max_size(size)
           THEN /\ hret' = HThrow("allocate", "bad_alloc")
                /\ UNCHANGED arena
         ELSE IF ~heap_initialized
           THEN /\ hret' = HThrow("allocate", "OpenSSL secure heap not initialized")
                /\ UNCHANGED arena
         ELSE IF arena[s].used \/ total_bytes(n, size) > SlotBytes
           THEN /\ hret' = HThrow("allocate", "bad_alloc")
                /\ UNCHANGED arena
         ELSE /\ arena' = [arena EXCEPT ![s] =
                              [secure_malloc(@, total_bytes(n, size))
                                  EXCEPT !.n = n, !.size = size]]
              /\ hret' = HOk("allocate")
    /\ UNCHANGED <<heap_initialized, poolVars, provVars, storVars, resVars, keyVars>>

\* the container writes into its buffer
Store(s, i, b) ==
    /\ arena[s].used
    /\ i \in 1 .. Len(arena[s].bytes)
    /\ arena[s].bytes[i] # b
    /\ arena' = [arena EXCEPT ![s].bytes[i] = b]
    /\ hret' = HOk("store")
    /\ UNCHANGED <<heap_initialized, poolVars, provVars, storVars, resVars, keyVars>>

\* deallocate(p, n): the container gives back the buffer at p, of the n
\* elements it asked for
deallocate(p) ==
    /\ IF p = nullptr
         THEN UNCHANGED arena
         ELSE /\ arena[p].used
              /\ arena' = [arena EXCEPT ![p] = Deallocated(@, @.n)]
    /\ hret' = HOk("deallocate")
    /\ UNCHANGED <<heap_initialized, poolVars, provVars, storVars, resVars, keyVars>>

\* the container grows by one element: a new buffer, the elements copied,
\* the old buffer given back
Grow(s, t) ==
    /\ arena[s].used
    /\ s # t
    /\ arena[s].n < MaxElems
    /\ IF arena[t].used
         THEN /\ hret' = HThrow("grow", "bad_alloc")
              /\ UNCHANGED arena
         ELSE /\ arena' = [arena EXCEPT
                    ![t] = [used  |-> TRUE,
                            n     |-> arena[s].n + 1,
                            size  |-> arena[s].size,
                            bytes |-> arena[s].bytes \o
                                      SubSeq(secure_malloc(@, total_bytes(arena[s].n + 1, arena[s].size)).bytes,
                                             Len(arena[s].bytes) + 1,
                                             total_bytes(arena[s].n + 1, arena[s].size))],
                    ![s] = Deallocated(@, @.n)]
              /\ hret' = HOk("grow")
    /\ UNCHANGED <<heap_initialized, poolVars, provVars, storVars, resVars, keyVars>>

HeapNext ==
    \/ initialize_secure_heap
    \/ cleanup_secure_heap
    \/ \E s \in Slots, n \in (0 .. MaxElems) \cup {SizeMax}, size \in ElemSizes :
          allocate(s, n, size)
    \/ \E s \in Slots, i \in 1 .. SlotBytes, b \in Bit : Store(s, i, b)
    \/ \E p \in Slots \cup {nullptr} : deallocate(p)
    \/ \E s \in Slots, t \in Slots : Grow(s, t)

\* the pool, the provider and the storage play no part in the heap
HeapInit == Init /\ maxPoolSize = 0 /\ key_ = Const(KeySize, 0)

HeapSpec == HeapInit /\ [][HeapNext]_vars

\* ------------------------------------------------------------ Result<T> members
MaxValue == 2
MaxCode  == 1
Values   == 0 .. MaxValue
Codes    == 0 .. MaxCode
Messages == {"failed", "original"}
Errors   == [message : Messages, code : Codes]

\* the alternative data_ does not hold
NoValue == MaxValue + 1
NoError == [message |-> "", code |-> 0]

\* Result<T>::ok(value), Result<T>::err(message, code), Result<T>::err(error)
ok(value)          == [kind |-> "ok",  value |-> value,   error |-> NoError]
errOf(error)       == [kind |-> "err", value |-> NoValue, error |-> error]
err(message, code) == errOf([message |-> message, code |-> code])

Results == {ok(v) : v \in Values} \cup {errOf(e) : e \in Errors}

\* std::holds_alternative<T>(data_), std::holds_alternative<Error>(data_)
is_ok(r)  == r.kind = "ok"
is_err(r) == r.kind = "err"

\* what a member call gives back: a value, an exception, or a Result, and
\* whether it invoked the function it was given
Gave(kind, res, called) == [kind |-> kind, res |-> res, called |-> called]
nullopt == [has |-> FALSE, value |-> NoValue]
Some(v) == [has |-> TRUE, value |-> v]

unwrap(r) ==
    IF is_err(r)
      THEN Gave("throw", "Attempted to unwrap error result", FALSE)
      ELSE Gave("value", r.value, FALSE)

unwrap_err(r) ==
    IF is_ok(r)
      THEN Gave("throw", "Attempted to unwrap_err on ok result", FALSE)
      ELSE Gave("error", r.error, FALSE)

and_then(r, f) ==
    IF is_err(r)
      THEN Gave("result", errOf(r.error), FALSE)
      ELSE Gave("result", f[r.value], TRUE)

\* a map that builds its error from the message alone
map_message_only(r, f) ==
    IF is_err(r)
      THEN Gave("result", err(r.error.message, 0), FALSE)
      ELSE Gave("result", ok(f[r.value]), TRUE)

map(r, f) ==
    IF is_err(r)
      THEN Gave("result", errOf(r.error), FALSE)
      ELSE Gave("result", ok(f[r.value]), TRUE)

map_err(r, f) ==
    IF is_ok(r)
      THEN Gave("result", r, FALSE)
      ELSE Gave("result", errOf(f[r.error]), TRUE)

or_else(r, f) ==
    IF is_ok(r)
      THEN Gave("result", r, FALSE)
      ELSE Gave("result", f[r.error], TRUE)

to_optional(r) ==
    IF is_err(r)
      THEN Gave("optional", nullopt, FALSE)
      ELSE Gave("optional", Some(r.value), FALSE)

\* the functions handed to map, and_then, map_err and or_else
MapFns  == [Values -> Values]
ThenFns == {[x \in Values |-> ok(g[x])] : g \in MapFns}
             \cup {[x \in Values |-> errOf(e)] : e \in Errors}
ErrFns  == {[e \in Errors |-> [message |-> m, code |-> (e.code + d) % (MaxCode + 1)]] :
               m \in Messages, d \in 0 .. 1}
ElseFns == {[e \in Errors |-> ok(v)] : v \in Values}
             \cup {[e \in Errors |-> err(e.message, c)] : c \in Codes}

\* a Result is made
MakeResult(r) ==
    /\ result' = r
    /\ outcome' = NoOutcome
    /\ UNCHANGED <<poolVars, provVars, storVars, heapVars, keyVars>>

\* a member is called on the Result; none of them changes it
Did(op, arg, gave) == [op |-> op, arg |-> arg, gave |-> gave]

CallIsOk ==
    /\ result # NoResult
    /\ outcome' = Did("is_ok", <<>>, Gave("bool", is_ok(result), FALSE))
    /\ UNCHANGED <<result, poolVars, provVars, storVars, heapVars, keyVars>>

CallIsErr ==
    /\ result # NoResult
    /\ outcome' = Did("is_err", <<>>, Gave("bool", is_err(result), FALSE))
    /\ UNCHANGED <<result, poolVars, provVars, storVars, heapVars, keyVars>>

CallUnwrap ==
    /\ result # NoResult
    /\ outcome' = Did("unwrap", <<>>, unwrap(result))
    /\ UNCHANGED <<result, poolVars, provVars, storVars, heapVars, keyVars>>

CallUnwrapErr ==
    /\ result # NoResult
    /\ outcome' = Did("unwrap_err", <<>>, unwrap_err(result))
    /\ UNCHANGED <<result, poolVars, provVars, storVars, heapVars, keyVars>>

CallToOptional ==
    /\ result # NoResult
    /\ outcome' = Did("to_optional", <<>>, to_optional(result))
    /\ UNCHANGED <<result, poolVars, provVars, storVars, heapVars, keyVars>>

CallMap(f) ==
    /\ result # NoResult
    /\ outcome' = Did("map", f, map(result, f))
    /\ UNCHANGED <<result, poolVars, provVars, storVars, heapVars, keyVars>>

CallAndThen(f) ==
    /\ result # NoResult
    /\ outcome' = Did("and_then", f, and_then(result, f))
    /\ UNCHANGED <<result, poolVars, provVars, storVars, heapVars, keyVars>>

CallMapErr(f) ==
    /\ result # NoResult
    /\ outcome' = Did("map_err", f, map_err(result, f))
    /\ UNCHANGED <<result, poolVars, provVars, storVars, heapVars, keyVars>>

CallOrElse(f) ==
    /\ result # NoResult
    /\ outcome' = Did("or_else", f, or_else(result, f))
    /\ UNCHANGED <<result, poolVars, provVars, storVars, heapVars, keyVars>>

ResultNext ==
    \/ \E r \in Results : MakeResult(r)
    \/ CallIsOk
    \/ CallIsErr
    \/ CallUnwrap
    \/ CallUnwrapErr
    \/ CallToOptional
    \/ \E f \in MapFns : CallMap(f)
    \/ \E f \in ThenFns : CallAndThen(f)
    \/ \E f \in ErrFns : CallMapErr(f)
    \/ \E f \in ElseFns : CallOrElse(f)

\* the pool, the provider, the storage and the heap play no part
ResultInit == Init /\ maxPoolSize = 0 /\ key_ = Const(KeySize, 0)

ResultSpec == ResultInit /\ [][ResultNext]_vars

\* ------------------------------------------------------------ KeyManager
\* Passwords and salts are byte strings up to a small length; the key sizes
\* are those around the limits the code tests.
MaxPassLen == 2
MaxSaltLen == 1
PassBytes  == {1, 2}
ByteMod    == 4

Passwords == UNION {[1 .. n -> PassBytes] : n \in 0 .. MaxPassLen}
Salts     == UNION {[1 .. n -> PassBytes] : n \in 0 .. MaxSaltLen}
DerivedKeySizes == {0, 1, 2, 64, 65}
IterationCounts == {0, 1, 100000}

\* enum class KeyDerivationAlgorithm
KeyDerivationAlgorithm == {"PBKDF2_HMAC_SHA256", "PBKDF2_HMAC_SHA512"}

EVP_sha256 == [md |-> "sha256", size |-> 32]
EVP_sha512 == [md |-> "sha512", size |-> 64]

\* a digest of a byte string
RECURSIVE Mix(_)
Mix(bytes) == IF bytes = <<>> THEN 1 ELSE (3 * Mix(Tail(bytes)) + bytes[1]) % 7

\* PKCS5_PBKDF2_HMAC(pass, passlen, salt, saltlen, iter, digest, keylen, out):
\* 1 and keylen bytes in out, or 0 (an iteration count below 1 is refused).
\* Byte i of the output is a function of the password, the salt, the
\* iteration count, the digest and i, and of nothing else.
PKCS5_PBKDF2_HMAC(password, salt, iterations, digest, keylen) ==
    IF iterations < 1
      THEN [rc |-> 0, out |-> Const(keylen, 0)]
      ELSE LET seed == 5 * Mix(password) + 3 * Mix(salt) + (iterations % 7) + digest.size
               step == 1 + Mix(password \o salt)
           IN  [rc |-> 1,
                out |-> [i \in 1 .. keylen |->
                           (seed + ((i - 1) \div digest.size) + i * step) % ByteMod]]

\* (algorithm == PBKDF2_HMAC_SHA256) ? EVP_sha256() : EVP_sha512()
DigestOf(algorithm) == IF algorithm = "PBKDF2_HMAC_SHA256" THEN EVP_sha256 ELSE EVP_sha512

\* (a comparison that looks at the first byte only)
CRYPTO_memcmp_first(a, b, len) == IF a[1] = b[1] THEN 0 ELSE 1

\* CRYPTO_memcmp(a, b, len): 0 iff the first len bytes are the same
CRYPTO_memcmp(a, b, len) == IF SubSeq(a, 1, len) = SubSeq(b, 1, len) THEN 0 ELSE 1

\* KeyManager::derive_key
derive_key(password, salt, derived_key_size, algorithm, iterations) ==
    IF password = <<>> \/ salt = <<>> \/ derived_key_size = 0
      THEN KErr("Invalid input parameters")
      ELSE LET kdf == PKCS5_PBKDF2_HMAC(password, salt, iterations,
                                        DigestOf(algorithm), derived_key_size)
           IN  IF kdf.rc # 1
                 THEN KErr("Key derivation failed (" \o algorithm \o ")")
                 ELSE KOk(kdf.out)

\* KeyManager::verify_password
verify_password(password, salt, expected_derived_key, derived_key_size, algorithm, iterations) ==
    IF password = <<>> THEN KErr("Password cannot be empty")
    ELSE IF salt = <<>> THEN KErr("Salt cannot be empty")
    ELSE IF derived_key_size = 0 \/ derived_key_size > 64 THEN KErr("Invalid derived key size")
    ELSE IF Len(expected_derived_key) # derived_key_size THEN KErr("Expected key size mismatch")
    ELSE LET kdf == PKCS5_PBKDF2_HMAC(password, salt, iterations,
                                      DigestOf(algorithm), derived_key_size)
         IN  IF kdf.rc # 1
               THEN KErr("Key derivation failed during verification")
               ELSE KOk(CRYPTO_memcmp(kdf.out, expected_derived_key, derived_key_size) = 0)

\* the round trip: a caller derives one key, to verify a password against
\* it afterwards
DeriveKey(password, salt, n, algorithm, iterations) ==
    /\ kret.op = "none"
    /\ LET res == derive_key(password, salt, n, algorithm, iterations)
       IN  kret' = [op |-> "derive", password |-> password, salt |-> salt, n |-> n,
                    algorithm |-> algorithm, iterations |-> iterations,
                    derived |-> res.kind, given |-> NoGiven, res |-> res]
    /\ UNCHANGED <<poolVars, provVars, storVars, heapVars, resVars>>

\* the key with byte i changed
FlipByte(key, i) == [key EXCEPT ![i] = (@ + 1) % ByteMod]

\* the places where a caller's key may differ from the derived one: the
\* first byte, the last, the one in the middle, the first of the digest's
\* second block
ChangedAt(n) == {1, (n + 1) \div 2, n} \cup {i \in {33} : i <= n}

\* what a caller may hold as the expected key after a derive_key: the key it
\* gave, that key with one byte or every byte changed, cut or extended, or
\* no key
ExpectedKeys ==
    IF kret.op = "derive" /\ kret.res.kind = "ok"
      THEN {kret.res.value, SubSeq(kret.res.value, 1, kret.n - 1), kret.res.value \o <<0>>,
            [i \in 1 .. kret.n |-> (kret.res.value[i] + 1) % ByteMod]}
             \cup {FlipByte(kret.res.value, i) : i \in ChangedAt(kret.n)}
      ELSE {<<>>, <<0>>}

\* (history) the arguments of the call against those of the derive_key
Given(password, expected) ==
    [password |-> IF password = kret.password THEN "same" ELSE "other",
     expected |-> IF expected = kret.res.value THEN "derived"
                  ELSE IF Len(expected) = kret.n THEN "changed" ELSE "resized"]

\* the caller verifies a password against the expected key, with the salt,
\* the size, the algorithm and the iterations of the derive_key before
VerifyPassword(password, expected) ==
    /\ kret.op = "derive"
    /\ kret' = [op |-> "verify", password |-> <<>>, salt |-> <<>>, n |-> kret.n,
                algorithm |-> kret.algorithm, iterations |-> kret.iterations,
                derived |-> kret.res.kind,
                given |-> Given(password, expected),
                res |-> verify_password(password, kret.salt, expected, kret.n,
                                        kret.algorithm, kret.iterations)]
    /\ UNCHANGED <<poolVars, provVars, storVars, heapVars, resVars>>

KeyNext ==
    \/ \E password \in Passwords, salt \in Salts, n \in DerivedKeySizes,
          algorithm \in KeyDerivationAlgorithm, iterations \in IterationCounts :
            DeriveKey(password, salt, n, algorithm, iterations)
    \/ \E password \in Passwords : \E expected \in ExpectedKeys :
            VerifyPassword(password, expected)

KeyInit == Init /\ maxPoolSize = 0 /\ key_ = Const(KeySize, 0)

KeySpec == KeyInit /\ [][KeyNext]_vars

\* ============================================================ properties

\* a step in which some acquire() returns its Handle
HandleBorn(h) == handle[h].live # "live" /\ handle'[h].live = "live"

\* C1: the Handles that hold a context never number more than max_size, and
\* an acquire() returns only from a state in which fewer than max_size
\* Handles hold one (so one issued while max_size are held waits for a release).
C1_StrictPoolSize ==
    /\ [](Leased <= maxPoolSize)
    /\ [][\A h \in Handles : HandleBorn(h) => Leased < maxPoolSize /\ Leased' = Leased + 1]_vars

C1_Witness ==
    /\ maxPoolSize >= 1
    /\ Leased = maxPoolSize
    /\ \E t \in Threads : pc[t] = "waiting"

\* C2: no lost wake-up.  Whenever a context is idle while some thread is
\* blocked in acquire(), the context is taken (by a woken waiter or by a new
\* arrival) or nobody is blocked any more; and a waiter that leaves the wait
\* returns a Handle with a non-null context.
C2_NoLostWakeup ==
    /\ (pool # <<>> /\ Blocked # {}) ~> (pool = <<>> \/ Blocked = {})
    /\ [][\A t \in Threads :
            pc[t] = "notified" /\ pc'[t] \notin {"notified", "waiting"}
                => handle'[target[t]].live = "live" /\ handle'[target[t]].ctx # NoCtx]_vars

C2_Witness ==
    /\ pool # <<>>
    /\ \E t \in Threads : pc[t] = "notified"
    /\ \E t \in Threads : pc[t] = "waiting"

\* C3: every constructed context is in exactly one place, one Handle or one
\* slot of the idle stack; a context not yet constructed is nowhere.
C3_ExclusiveOwnership ==
    \A c \in Ctxs :
        HeldCount(c) + IdleCount(c) = (IF ctxState[c] = "none" THEN 0 ELSE 1)

C3_Witness ==
    \E c, d \in Ctxs : c # d /\ IdleCount(c) = 1 /\ HeldCount(d) = 1

\* C4: reset() or destruction of a Handle that holds a context pushes that
\* context once (the idle count grows by exactly 1) and leaves the Handle
\* empty, so that a further reset() or the destruction finds nothing to
\* give back; on an empty Handle they change nothing in the pool.
C4_ReleasedOnce ==
    [][\A h \in Handles :
         (HandleReset(h) \/ HandleDestroy(h)) =>
            IF handle[h].ctx # NoCtx
            THEN /\ pool' = Append(pool, handle[h].ctx)
                 /\ Len(pool') = Len(pool) + 1
                 /\ handle'[h].ctx = NoCtx
                 /\ ~handle'[h].pool
            ELSE /\ pool' = pool
                 /\ currentSize' = currentSize
                 /\ ctxState' = ctxState
                 /\ handle'[h].ctx = NoCtx]_vars

C4_Witness ==
    \E h \in Handles :
        /\ handle[h].live = "live"
        /\ handle[h].ctx = NoCtx
        /\ Len(pool) = 1
        /\ currentSize = 1

\* a step in which thread t leaves an encrypt/decrypt call that holds a Handle
CallExit(t) == pc[t] = "body" /\ pc'[t] = "idle"

\* C5: however a call that holds a Handle ends (ok, error Result or
\* exception), its context is on the idle stack afterwards, the Handle is
\* gone, one context fewer is leased than during the call, and an acquire()
\* issued next finds a context; between calls of the caller nothing is leased.
C5_ScopeExitReleases ==
    /\ [][\A t \in Threads : CallExit(t) =>
            /\ handle[target[t]].ctx # NoCtx
            /\ pool' = Append(pool, handle[target[t]].ctx)
            /\ handle'[target[t]].live = "dead"
            /\ Leased' = Leased - 1
            /\ pool' # <<>>]_vars
    /\ []((\A t \in Callers : call[t].op = "none") => Leased = 0)

C5_Witness ==
    \E t \in Callers :
        /\ ret[t].kind = "exc"
        /\ ret[t].fault = "update"
        /\ call[t].op = "none"
        /\ Leased = 0
        /\ pool # <<>>

\* C6 as claimed: with no EVP or RAND failure, encrypt with an empty IV
\* buffer succeeds, and decrypt of exactly what encrypt produced succeeds
\* and returns the plaintext, the empty plaintext included.
C6_RoundTripAll ==
    \A t \in Callers :
        /\ (ret[t].op = "enc" /\ ret[t].gen /\ ret[t].fault = "none") => ret[t].kind = "ok"
        /\ (ret[t].op = "dec" /\ ret[t].tamper = "none" /\ ret[t].fault = "none")
              => ret[t].kind = "ok" /\ ret[t].value = ret[t].orig

\* C6 amended: the same for every non-empty plaintext; for the empty
\* plaintext encrypt succeeds with an empty ciphertext, which decrypt rejects
\* with "Ciphertext cannot be empty".
C6_RoundTripNonEmpty ==
    \A t \in Callers :
        /\ (ret[t].op = "enc" /\ ret[t].gen /\ ret[t].fault = "none") => ret[t].kind = "ok"
        /\ (ret[t].op = "dec" /\ ret[t].tamper = "none" /\ ret[t].fault = "none") =>
              IF ret[t].orig # <<>>
              THEN ret[t].kind = "ok" /\ ret[t].value = ret[t].orig
              ELSE ret[t].kind = "err" /\ ret[t].msg = "Ciphertext cannot be empty"

C6_Witness ==
    \E t \in Callers :
        /\ ret[t].op = "dec"
        /\ ret[t].tamper = "none"
        /\ ret[t].kind = "ok"
        /\ ret[t].orig # <<>>
        /\ ret[t].value = ret[t].orig

\* C7: decrypt of an encrypt output with one bit of the ciphertext, of the
\* IV or of the tag flipped never gives back an ok Result or any plaintext
\* byte, and with no EVP failure it returns an error Result.
C7_TamperDetected ==
    \A t \in Callers :
        (ret[t].op = "dec" /\ ret[t].tamper \in {"C", "IV", "T"}) =>
            /\ ret[t].kind # "ok"
            /\ ret[t].value = <<>>
            /\ (ret[t].fault = "none" => ret[t].kind = "err")

C7_Witness ==
    \E t \in Callers :
        /\ ret[t].op = "dec"
        /\ ret[t].tamper = "C"
        /\ ret[t].fault = "none"
        /\ ret[t].kind = "err"
        /\ ret[t].msg = "Decryption failed: Invalid tag or corrupted data."

\* C8: a successful encrypt returns as many bytes as the plaintext has and
\* leaves 12 bytes in iv and 16 in tag, whatever tag held before; with a
\* usable IV buffer and no EVP or RAND failure the empty plaintext succeeds
\* with an empty ciphertext.
C8_EncryptLengths ==
    \A t \in Callers :
        /\ (ret[t].op = "enc" /\ ret[t].kind = "ok") =>
              /\ Len(ret[t].value) = Len(ret[t].data)
              /\ Len(ret[t].iv) = 12
              /\ Len(ret[t].tag) = 16
        /\ (ret[t].op = "enc" /\ ret[t].data = <<>> /\ ret[t].fault = "none"
               /\ Len(ret[t].iv) = 12) =>
              ret[t].kind = "ok" /\ ret[t].value = <<>>

C8_Witness ==
    \E t \in Callers :
        /\ ret[t].op = "enc"
        /\ ret[t].kind = "ok"
        /\ ret[t].data = <<>>
        /\ ret[t].value = <<>>
        /\ Len(ret[t].tag) = 16

CipherFaults == {"init", "ivlen", "keyiv", "update", "settag", "final", "gettag"}
C10_FailuresAreResults ==
    \A t \in Callers :
        (ret[t].op \in {"enc", "dec"} /\ ret[t].fault \in CipherFaults) => ret[t].kind = "err"

\* C11: with a pool of size >= 1 and threads calling encrypt and decrypt at
\* the same time, a thread inside a call holds at most one context, holds none
\* between calls, every call that has passed validation comes back, and a
\* decrypt of an unchanged triplet that no EVP call failed on returns the
\* plaintext the triplet was made from.
C11_ConcurrentCallsComplete ==
    /\ [](\A t \in Threads :
            /\ Cardinality({h \in Handles : handle[h].ctx # NoCtx /\ target[t] = h}) <= 1
            /\ (call[t].op = "none" => target[t] = NoHandle))
    /\ [](\A t \in Threads :
            (ret[t].op = "dec" /\ ret[t].tamper = "none" /\ ret[t].fault = "none"
                /\ ret[t].orig # <<>>) => ret[t].kind = "ok" /\ ret[t].value = ret[t].orig)
    /\ \A t \in Threads : (call[t].op # "none") ~> (call[t].op = "none")

\* the instance is mounted: a mount succeeded and no unmount followed
Mounted == constructed /\ is_mounted /\ filestream.open

\* id is a block of the mounted config: id < total_size / block_size
InRange(id) == block_size_ > 0 /\ id < (total_blocks_ \div block_size_)

\* C12: on a mounted storage, write_block(id, data) with id in
\* [0, block_count) and len(data) <= block_size succeeds, read_block(id) then
\* returns data followed by zero bytes up to block_size, and read_block(j) of
\* every other block returns what it returned before the write.
C12_WriteThenRead ==
    [][\A t \in Clients :
        /\ \A id \in BlockIds, data \in Buffers :
             (WriteBlockCheck(t, id, data) /\ Mounted /\ InRange(id) /\ Len(data) <= block_size_)
                => /\ wframe'[t].active
                   /\ wframe'[t].id = id
                   /\ Len(wframe'[t].data) = block_size_
                   /\ \A i \in 1 .. block_size_ :
                        wframe'[t].data[i] = (IF i <= Len(data) THEN data[i] ELSE 0)
        /\ \A id \in BlockIds :
             (WriteBlockLocked(t) /\ Mounted /\ id = wframe[t].id /\ InRange(id))
                => /\ sret'[t] = SOk("write", <<>>)
                   /\ ReadBlockResult(id)'.res = SOk("read", wframe[t].data)
                   /\ \A j \in BlockIds \ {id} :
                        ReadBlockResult(j)'.res = ReadBlockResult(j).res]_vars

\* C13: on a storage mounted with config {block_size, total_size},
\* read_block(id) and write_block(id, data) with id >= total_size / block_size
\* return the error with code -2 and do no seek, read or write on the file.
C13_InvalidBlockId ==
    [][\A t \in Clients, id \in BlockIds :
        (Mounted /\ block_size_ > 0 /\ id >= (total_blocks_ \div block_size_)) =>
            /\ ReadBlock(t, id) =>
                 sret'[t] = SErr("read", -2) /\ filestream' = filestream /\ disk' = disk
            /\ \A data \in Buffers :
                 WriteBlockCheck(t, id, data) =>
                    sret'[t] = SErr("write", -2) /\ ~wframe'[t].active]_vars

\* C14: while the instance is mounted, the container file is block_size x
\* block_count bytes long (block_count = total_size / block_size of the
\* mounted config), and no read_block, write_block or flush changes its length.
C14_FileLengthFixed ==
    /\ [](Mounted =>
            Len(disk[filestream.file].bytes)
                = block_size_ * (IF block_size_ = 0 THEN 0 ELSE total_blocks_ \div block_size_))
    /\ [][\A t \in Clients :
            (Mounted /\ (\/ WriteBlockLocked(t)
                         \/ Flush(t)
                         \/ (\E id \in BlockIds : ReadBlock(t, id))
                         \/ (\E wid \in BlockIds, data \in Buffers : WriteBlockCheck(t, wid, data))))
                => Len(disk'[filestream.file].bytes) = Len(disk[filestream.file].bytes)]_vars

\* C15: on an instance that is not mounted, unmount, read_block,
\* write_block and flush each return an error with code -1 and leave the
\* stream and the disk alone; mount on a mounted instance returns an error
\* with code -1.
C15_NotMountedErrors ==
    [][\A t \in Clients :
        /\ (constructed /\ ~is_mounted) =>
             /\ Unmount(t) => sret'[t] = SErr("unmount", -1)
             /\ \A id \in BlockIds : ReadBlock(t, id) => sret'[t] = SErr("read", -1)
             /\ \A id \in BlockIds, data \in Buffers :
                  WriteBlockCheck(t, id, data) =>
                     sret'[t] = SErr("write", -1) /\ ~wframe'[t].active
             /\ Flush(t) => sret'[t] = SErr("flush", -1)
             /\ (Unmount(t) \/ Flush(t) \/ (\E id \in BlockIds : ReadBlock(t, id)))
                  => filestream' = filestream /\ disk' = disk
        /\ (constructed /\ is_mounted) =>
             \A p \in Paths, config \in Configs :
                Mount(t, p, config) => sret'[t] = SErr("mount", -1)]_vars

\* C16: a newly constructed BlockStorage is unmounted (isMounted() is false,
\* unmount fails); a successful mount makes isMounted() true; a mount while
\* mounted fails and leaves the file and the geometry; a successful unmount
\* makes isMounted() false, and a mount of a container file then succeeds.
C16_MountLifecycle ==
    [][\A t \in Clients :
        /\ BlockStorageCtor(t) => ~isMounted'
        /\ (Unmount(t) /\ sret[t].op = "ctor") => sret'[t].kind = "err"
        /\ \A p \in Paths, config \in Configs :
             /\ (Mount(t, p, config) /\ sret'[t].kind = "ok") => isMounted'
             /\ (Mount(t, p, config) /\ isMounted) =>
                  /\ sret'[t].kind = "err"
                  /\ isMounted'
                  /\ filestream' = filestream
                  /\ block_size_' = block_size_
                  /\ total_blocks_' = total_blocks_
             /\ (Mount(t, p, config) /\ sret[t] = SOk("unmount", <<>>) /\ disk[p].kind = "file")
                  => sret'[t].kind = "ok"
        /\ (Unmount(t) /\ sret'[t].kind = "ok") => ~isMounted']_vars

\* the length a container file of config must have: block_size x block_count
ConfigLength(config) ==
    config.block_size * (IF config.block_size = 0 THEN 0
                         ELSE config.total_size \div config.block_size)

\* C17: mount on an unmounted instance fails and leaves it unmounted with
\* the stream closed, with code -6 when block_size is 0, with code -4 when
\* the path names no regular file (nothing, or a directory), with code -5
\* when the file's length is not block_size x block_count.
C17_MountValidation ==
    [][\A t \in Clients, p \in Paths \ {""}, config \in Configs :
        (Mount(t, p, config) /\ ~isMounted) =>
            /\ (config.block_size = 0) => sret'[t] = SErr("mount", -6)
            /\ (config.block_size > 0 /\ disk[p].kind # "file") => sret'[t] = SErr("mount", -4)
            /\ (config.block_size > 0 /\ disk[p].kind = "file"
                   /\ Len(disk[p].bytes) # ConfigLength(config)) => sret'[t] = SErr("mount", -5)
            /\ (sret'[t].kind = "err") => ~isMounted' /\ ~filestream'.open]_vars

\* C18: a mount call that returns an error leaves the instance as it was:
\* mounted or not as before, the stream open or closed as before and on the
\* same file, the stored path, block size and block count unchanged, and the
\* disk untouched.
C18_FailedMountNoChange ==
    [][\A t \in Clients, p \in Paths, config \in Configs :
        (Mount(t, p, config) /\ sret'[t].kind = "err") =>
            /\ is_mounted' = is_mounted
            /\ filestream'.open = filestream.open
            /\ filestream'.file = filestream.file
            /\ path' = path
            /\ block_size_' = block_size_
            /\ total_blocks_' = total_blocks_
            /\ disk' = disk]_vars

\* a config with block_size > 0 and total_size a positive multiple of it
ValidConfig(config) ==
    /\ config.block_size > 0
    /\ config.total_size > 0
    /\ config.total_size % config.block_size = 0

\* C19: for a non-empty path that can be written and a config with
\* block_size > 0 and total_size a positive multiple of block_size, create
\* succeeds and leaves a file of exactly total_size zero bytes, and mount of
\* that file with that config on an unmounted instance succeeds.
C19_CreateThenMount ==
    [][\A t \in Clients, p \in Paths, config \in Configs :
        (p # "" /\ disk[p].kind # "dir" /\ ValidConfig(config)) =>
            /\ Create(t, p, config) =>
                 /\ sret'[t] = SOk("create", <<>>)
                 /\ disk'[p] = RegularFile(Const(config.total_size, 0))
            /\ (Mount(t, p, config) /\ ~isMounted
                   /\ disk[p] = RegularFile(Const(config.total_size, 0))) =>
                 sret'[t] = SOk("mount", <<>>) /\ isMounted']_vars

\* C20: create with an empty path, with block_size 0, or with total_size 0
\* or not a multiple of block_size returns an error Result (it does not
\* crash) and creates or truncates no file.
C20_CreateRejects ==
    [][\A t \in Clients, p \in Paths, config \in Configs :
        (Create(t, p, config) /\ (p = "" \/ ~ValidConfig(config))) =>
            sret'[t].kind = "err" /\ disk' = disk]_vars

\* C21: when a mount of the same path and config directly follows a
\* successful unmount and succeeds, every read_block(i) that returned bytes
\* before the unmount returns the same bytes after the mount; a mount or an
\* unmount changes no byte of any file.
C21_RemountKeepsBlocks ==
    [][\A t \in Clients :
        /\ (disk' # disk)
              => ~(Unmount(t) \/ \E p \in Paths, config \in Configs : Mount(t, p, config))
        /\ \A config \in Configs :
             (/\ sret[t] = SOk("unmount", <<>>)
              /\ lastReads # NoReads
              /\ sret'[t] = SOk("mount", <<>>)
              /\ MountedBlockSize(config) = block_size_
              /\ MountedTotalBlocks(config) = total_blocks_
              /\ Mount(t, path, config))
                => \A i \in BlockIds :
                     lastReads[i].kind = "ok" => ReadBlockResult(i)'.res = lastReads[i]]_vars

C21_Witness ==
    \E t \in Clients, i \in BlockIds :
        /\ sret[t] = SOk("mount", <<>>)
        /\ lastReads # NoReads
        /\ block_size_ > 0
        /\ lastReads[i] = SOk("read", Const(block_size_, 1))
        /\ ReadBlockResult(i).res = lastReads[i]

\* C22: with the threads running on one mounted instance, each writing a
\* block of its own that lies inside the mounted config and then reading it,
\* every write passes its checks and succeeds and every read succeeds and
\* returns the bytes the thread wrote, whatever the other threads do meanwhile.
C22_DisjointRoundTrips ==
    [][\A t \in Threads :
        (ThreadsRun /\ InRange(OwnBlock(t))) =>
            /\ WriteOwn(t) => wframe'[t].active /\ wframe'[t].data = OwnData(t)
            /\ (WriteBlockLocked(t) /\ wframe[t].id = OwnBlock(t))
                  => sret'[t] = SOk("write", <<>>)
            /\ ReadOwn(t) => sret'[t] = SOk("read", OwnData(t))]_vars

C22_Witness ==
    \E t, u \in Threads :
        /\ t # u
        /\ InRange(OwnBlock(t))
        /\ InRange(OwnBlock(u))
        /\ sret[t] = SOk("read", OwnData(t))
        /\ sret[u] = SOk("write", <<>>)
        /\ wframe[t].active

\* C23: write_block and read_block do their mounted check and their file
\* access in one critical section: the seek and the write of a write_block
\* never run on a file handle that an unmount has closed, and a write_block
\* that races with an unmount returns success or the error with code -1.
C23_OpsHoldMutex ==
    [][\A t \in Threads :
        /\ WriteBlockLocked(t) =>
             /\ filestream.open
             /\ is_mounted
             /\ sret'[t].kind = "ok" \/ sret'[t] = SErr("write", -1)
        /\ (ReadOwn(t) /\ InRange(OwnBlock(t)))
              => sret'[t].kind = "ok" \/ sret'[t] = SErr("read", -1)]_vars

\* the bytes of block id in the mounted file (shorter when the file ends early)
BlockBytes(id) ==
    LET bytes == disk[filestream.file].bytes
    IN  SubSeq(bytes, id * block_size_ + 1, Min(Len(bytes), (id + 1) * block_size_))

\* the complete padded payloads the threads write
Payloads == {Pad(d, block_size_) : d \in UNION {SharedData(t) : t \in Sharers}}

\* C24: the calls take effect one at a time, in the order of their critical
\* sections: a write_block puts its whole padded payload into the block in
\* one step and nothing changes the block in between, and a read_block that
\* succeeds returns the block as it stands at its own step, so what it
\* returns is the complete payload of one write or the content the block had
\* before all of them, never a mixture.
C24_Linearizable ==
    /\ [][\A t \in Sharers :
            /\ (WriteBlockLocked(t) /\ ThreadsRun /\ StreamUsable)
                  => /\ BlockBytes(SharedBlock)' = wframe[t].data
                     /\ wframe[t].data \in Payloads
                     /\ sret'[t] = SOk("write", <<>>)
            /\ (\E data \in SharedData(t) : WriteShared(t, data)) => disk' = disk
            /\ ReadShared(t) =>
                  /\ disk' = disk
                  /\ sret'[t].kind = "ok" => sret'[t].value = BlockBytes(SharedBlock)]_vars
    /\ [](\A t \in Sharers :
            (ThreadsRun /\ sret[t].op = "read" /\ sret[t].kind = "ok") =>
                \/ sret[t].value \in Payloads
                \/ sret[t].value = Const(block_size_, 0))

C24_Witness ==
    \E t, u \in Sharers :
        /\ t # u
        /\ block_size_ > 1
        /\ sret[t] = SOk("read", Pad(Const(block_size_ - 1, u), block_size_))
        /\ wframe[u].active
        /\ wframe[u].data = Const(block_size_, u)
        /\ BlockBytes(SharedBlock) = sret[t].value

\* C25: on a mounted storage and for a block of the mounted config,
\* write_block with more than block_size bytes returns the error with code -3
\* and touches no file, and write_block with exactly block_size bytes succeeds
\* and leaves exactly these bytes in the block.
C25_OversizeRejected ==
    [][\A t \in Clients, id \in BlockIds :
        (Mounted /\ InRange(id)) =>
            /\ \A data \in Buffers :
                 (Len(data) > block_size_ /\ WriteBlockCheck(t, id, data)) =>
                    /\ sret'[t] = SErr("write", -3)
                    /\ ~wframe'[t].active
                    /\ disk' = disk
            /\ (WriteBlockLocked(t) /\ wframe[t].id = id /\ wframe[t].data \in Buffers) =>
                    /\ sret'[t] = SOk("write", <<>>)
                    /\ BlockBytes(id)' = wframe[t].data]_vars

\* C26: a move (construction from src, or assignment of src to another
\* Handle) leaves in the destination the context and the pool reference src
\* had and leaves src empty (operator-> yields null); the idle stack does not
\* receive the moved context and no more contexts are leased than before; and
\* the destruction of a moved-from Handle changes nothing in the pool.
C26_MoveTransfersLease ==
    [][/\ \A src, dst \in Handles :
            (src # dst /\ (MoveConstruct(src, dst) \/ MoveAssign(dst, src))) =>
                /\ handle'[dst].ctx = handle[src].ctx
                /\ handle'[dst].pool = handle[src].pool
                /\ handle'[src].ctx = NoCtx
                /\ ~handle'[src].pool
                /\ \A c \in Ctxs :
                      c = handle[src].ctx => IdleCount(c)' = 0 /\ HeldCount(c)' = 1
                /\ MoveConstruct(src, dst) => pool' = pool /\ ctxState' = ctxState /\ pc' = pc
       /\ \A h \in Handles :
            DestroyMoved(h) =>
                pool' = pool /\ ctxState' = ctxState /\ pc' = pc /\ currentSize' = currentSize]_vars

C26_Witness ==
    \E src, dst \in Handles :
        /\ handle[src].live = "moved"
        /\ handle[dst].live = "live"
        /\ handle[dst].ctx # NoCtx
        /\ handle[dst].pool
        /\ pool = <<>>
        /\ currentSize = 1

\* C27: a move assignment into a Handle that holds a lease gives the
\* destination's old context back exactly once (it is reset, on top of the
\* idle stack and in no Handle, so the next acquire() takes it) and the
\* destination then holds the source's context; a self-move-assignment
\* leaves the Handle, its lease and the pool as they were.
C27_MoveAssignReleasesFirst ==
    [][\A dst, src \in Handles :
        /\ \A c \in Ctxs :
             (dst # src /\ c = handle[dst].ctx /\ handle[dst].pool /\ MoveAssign(dst, src)) =>
                /\ pool' = Append(pool, c)
                /\ Top(pool') = c
                /\ IdleCount(c)' = 1
                /\ HeldCount(c)' = 0
                /\ ctxState'[c] = "clean"
                /\ handle'[dst].ctx = handle[src].ctx
                /\ handle'[src].ctx = NoCtx
        /\ (dst = src /\ MoveAssign(dst, src)) =>
                /\ handle'[dst] = handle[dst]
                /\ pool' = pool
                /\ ctxState' = ctxState]_vars

C27_Witness ==
    \E src, dst \in Handles : \E c \in Ctxs :
        /\ handle[src].live = "moved"
        /\ handle[dst].live = "live"
        /\ handle[dst].ctx # NoCtx
        /\ handle[dst].ctx # c
        /\ pool = <<c>>
        /\ ctxState[c] = "clean"
        /\ currentSize = 2

\* C28: whenever a container gives a buffer back (destruction, or growth
\* into a new buffer), every one of the n * sizeof(T) bytes of that buffer
\* is zero when the memory is back in the heap; no free memory of the heap
\* holds a non-zero byte.
C28_FreedBuffersZeroed ==
    [][/\ \A s \in Slots :
            (arena[s].used /\ (deallocate(s) \/ \E t \in Slots : Grow(s, t) /\ hret'.kind = "ok"))
               => /\ ~arena'[s].used
                  /\ arena'[s].bytes = Const(total_bytes(arena[s].n, arena[s].size), 0)
       /\ \A s \in Slots :
            ~arena'[s].used => \A i \in 1 .. Len(arena'[s].bytes) : arena'[s].bytes[i] = 0]_vars

\* a container has grown from one buffer into the other: the new buffer
\* holds the content, the old one lies in the heap, free and wiped
C28_Witness ==
    \E s \in Slots, t \in Slots :
        /\ hret = HOk("grow")
        /\ ~arena[s].used /\ Len(arena[s].bytes) > 0
        /\ arena[t].used /\ Len(arena[t].bytes) > Len(arena[s].bytes)
        /\ \A i \in 1 .. Len(arena[s].bytes) : arena[t].bytes[i] = 1 /\ arena[s].bytes[i] = 0

\* C29: a teardown of the secure heap while a secure allocation is
\* outstanding throws and leaves the heap initialised, and a teardown of a
\* heap that is not initialised (before any initialisation, or after a
\* successful teardown) throws too.
C29_TeardownErrors ==
    [][cleanup_secure_heap =>
          /\ (Outstanding # {}) => (hret'.kind = "throw" /\ heap_initialized')
          /\ ~heap_initialized => hret'.kind = "throw"]_vars

\* C30: on a Result in the error state map and and_then give an error
\* Result with the same message and code and do not invoke the function,
\* unwrap throws and to_optional is empty; on a Result in the ok state
\* map_err and or_else give the Result itself and do not invoke the
\* function, and unwrap_err throws; is_ok() and is_err() never agree.
C30_ShortCircuit ==
    /\ (result # NoResult) => (is_ok(result) # is_err(result))
    /\ (outcome.op = "is_ok") => (outcome.gave.res = (result.kind = "ok"))
    /\ (outcome.op = "is_err") => (outcome.gave.res = (result.kind # "ok"))
    /\ (outcome.op # "none" /\ result.kind = "err") =>
          /\ (outcome.op \in {"map", "and_then"}) =>
                /\ outcome.gave.kind = "result"
                /\ outcome.gave.res.kind = "err"
                /\ outcome.gave.res.error = result.error
                /\ ~outcome.gave.called
          /\ (outcome.op = "unwrap") => (outcome.gave.kind = "throw")
          /\ (outcome.op = "to_optional") => (outcome.gave.res = nullopt)
    /\ (outcome.op # "none" /\ result.kind = "ok") =>
          /\ (outcome.op \in {"map_err", "or_else"}) =>
                /\ outcome.gave.kind = "result"
                /\ outcome.gave.res = result
                /\ ~outcome.gave.called
          /\ (outcome.op = "unwrap_err") => (outcome.gave.kind = "throw")

\* map has been called on an error Result that carries a code other than 0
C30_Witness ==
    /\ result.kind = "err"
    /\ result.error.code # 0
    /\ outcome.op = "map"
    /\ outcome.gave.res = errOf(result.error)

\* the contexts the pool has constructed so far
Constructed == {c \in Ctxs : ctxState[c] # "none"}

\* C31: the high-water counter starts at 0, no step decreases it, and it
\* never exceeds max_size; the contexts a pool has constructed never number
\* more than the counter, hence never more than max_size.
C31_HighWater ==
    /\ currentSize = 0
    /\ [](currentSize <= maxPoolSize /\ Cardinality(Constructed) <= currentSize)
    /\ [][currentSize' >= currentSize]_vars

\* every context the pool may own has been constructed and lies idle: the
\* counter still stands at max_size
C31_Witness ==
    /\ maxPoolSize >= 2
    /\ currentSize = maxPoolSize
    /\ Len(pool) = maxPoolSize
    /\ Cardinality(Constructed) = maxPoolSize

\* C32: acquire() decides to construct a context only with the idle stack
\* empty and the counter below max_size, and contexts are constructed by
\* such acquires only; with an idle context present it returns at once with
\* the top one, which is the one released last; and with the counter at
\* max_size an acquire() that is called, or that leaves its wait, returns a
\* context that lay on the idle stack, reset by its release.
C32_ReuseBeforeGrowth ==
    [][/\ \A t \in Threads :
            (pc[t] # "constructing" /\ pc'[t] = "constructing")
               => pool = <<>> /\ currentSize < maxPoolSize /\ currentSize' = currentSize + 1
       /\ (Constructed' # Constructed) => \E t \in Threads : pc[t] = "constructing"
       /\ \A t \in Threads, h \in Handles :
            (pool # <<>> /\ Acquire(t, h))
               => /\ handle'[h] = NewHandle(Top(pool))
                  /\ pool' = Pop(pool)
                  /\ currentSize' = currentSize
                  /\ Constructed' = Constructed
       /\ \A h \in Handles :
            (handle[h].ctx # NoCtx /\ (HandleReset(h) \/ HandleDestroy(h)))
               => Top(pool') = handle[h].ctx
       /\ \A h \in Handles :
            (/\ currentSize = maxPoolSize
             /\ HandleBorn(h)
             /\ \E t \in Threads : Acquire(t, h) \/ (target[t] = h /\ Wake(t)))
               => /\ pool # <<>>
                  /\ handle'[h].ctx = Top(pool)
                  /\ ctxState[Top(pool)] = "clean"]_vars

\* with the counter at max_size a Handle holds a context that was released
\* and has not been used since, while another context lies idle
C32_Witness ==
    /\ maxPoolSize >= 2
    /\ currentSize = maxPoolSize
    /\ pool # <<>>
    /\ \E h \in Handles :
          /\ handle[h].live = "live"
          /\ handle[h].ctx # NoCtx
          /\ ctxState[handle[h].ctx] = "clean"

\* C33: every context on the idle stack is in the reset state; no step
\* destroys a context; and the context an acquire() hands out is freshly
\* constructed or reset, whatever its last lessee did with it.
C33_IdleContextsClean ==
    /\ [](\A i \in 1 .. Len(pool) : ctxState[pool[i]] = "clean")
    /\ [][/\ Constructed \subseteq Constructed'
          /\ \A h \in Handles :
               HandleBorn(h) => ctxState'[handle'[h].ctx] \in {"fresh", "clean"}
          /\ \A h \in Handles, c \in Ctxs :
               (handle[h].ctx = c /\ (HandleReset(h) \/ HandleDestroy(h)))
                  => /\ ctxState'[c] = "clean"
                     /\ IdleCount(c)' = 1]_vars

\* a used context has come back: it lies idle and reset while another
\* lessee is still working with a used one
C33_Witness ==
    /\ pool # <<>>
    /\ ctxState[Top(pool)] = "clean"
    /\ \E h \in Handles :
          /\ handle[h].ctx # NoCtx
          /\ ctxState[handle[h].ctx] = "dirty"

\* C34: whenever no acquire() is between its increment of the counter and
\* its return, the idle contexts and the live Handles that hold a context
\* together number exactly the counter; a failed construction included.
C34_CapacityConserved ==
    (\A t \in Threads : pc[t] # "constructing")
        => availableCount + Leased = currentSize

\* the errors encrypt and decrypt return before they reach acquire()
BeforeAcquireMsgs ==
    {"Invalid key size", "Invalid IV size", "Failed to generate secure IV",
     "Invalid IV: must be exactly 12 bytes", "Invalid tag: must be exactly 16 bytes",
     "Ciphertext cannot be empty"}

\* C35: with max_size = 0 no context is ever constructed, counted, idle or
\* leased; an acquire() goes into its wait and never leaves it, so an
\* encrypt or decrypt that gets as far as acquire() never returns: the only
\* calls that return are those that end before acquire() with an error.
C35_ZeroPoolBlocks ==
    /\ []((maxPoolSize = 0) =>
            /\ Constructed = {} /\ currentSize = 0 /\ pool = <<>> /\ Leased = 0
            /\ \A t \in Threads : pc[t] \in {"idle", "waiting", "notified"}
            /\ \A t \in Threads : (call[t].op # "none") => pc[t] \in {"waiting", "notified"})
    /\ [][(maxPoolSize = 0) => \A t \in Threads :
            /\ (pc[t] \in {"waiting", "notified"})
                  => /\ pc'[t] \in {"waiting", "notified"}
                     /\ call'[t] = call[t]
                     /\ ret'[t] = ret[t]
            /\ (pc[t] = "idle" /\ pc'[t] # "idle") => pc'[t] = "waiting"
            /\ (ret'[t] # ret[t])
                  => ret'[t].kind = "err" /\ ret'[t].msg \in BeforeAcquireMsgs]_vars

\* on a provider with pool size 0 a decrypt with well-formed arguments sits
\* in acquire(), woken once for nothing
C35_Witness ==
    /\ maxPoolSize = 0
    /\ \E t \in Callers :
          /\ call[t].op = "dec"
          /\ Len(call[t].iv) = IvSize /\ Len(call[t].tag) = TagSize /\ call[t].data # <<>>
          /\ pc[t] = "notified"

\* C36: encrypt with an IV buffer of a length other than 0 and 12, and
\* decrypt with an IV of a length other than 12, a tag of a length other
\* than 16 or an empty ciphertext, return an error Result (ret records which
\* operation returned and, for encrypt, its plaintext); the step leases
\* no context, changes nothing in the pool, draws nothing from the RNG and
\* leaves the iv and tag buffers as they were passed.
C36_ValidationFirst ==
    [][\A t \in Callers :
         (pc[t] = "idle" /\ call[t].op = "none" /\ ret'[t] # ret[t]) =>
         /\ (ret'[t].op = "enc") =>
              \A tagIn \in TagInputs, ivIn \in IvInputs(t) :
                (Len(ivIn) \notin {0, IvSize} /\ EncryptCall(t, ret'[t].data, ivIn, tagIn))
                   => /\ ret'[t].kind = "err"
                      /\ ret'[t].iv = ivIn /\ ret'[t].tag = tagIn
                      /\ poolVars' = poolVars /\ call' = call /\ drawn' = drawn
         /\ (ret'[t].op = "dec") =>
              \A cipher \in {<<>>, <<1>>}, iv \in {<<>>, IvOf(1), Const(IvSize + 1, 0)},
                 tag \in {<<>>, Const(TagSize, 0), Const(TagSize + 1, 0)} :
                (/\ Len(iv) # IvSize \/ Len(tag) # TagSize \/ cipher = <<>>
                 /\ DecryptArgs(t, cipher, iv, tag, "forged", <<>>))
                   => /\ ret'[t].kind = "err"
                      /\ ret'[t].iv = iv /\ ret'[t].tag = tag
                      /\ poolVars' = poolVars /\ call' = call /\ drawn' = drawn
         \* the output of an encrypt of the empty plaintext
         /\ (/\ ret[t].op = "enc" /\ ret[t].kind = "ok" /\ ret[t].value = <<>>
             /\ ret'[t].op = "dec"
             /\ DecryptArgs(t, ret[t].value, ret[t].iv, ret[t].tag, "none", ret[t].data))
                 => /\ ret'[t].kind = "err"
                    /\ ret'[t].iv = ret[t].iv /\ ret'[t].tag = ret[t].tag
                    /\ poolVars' = poolVars /\ call' = call /\ drawn' = drawn]_vars

\* a decrypt with a 17-byte tag has been turned away: the tag buffer still
\* holds its 17 bytes and the pool has not constructed a context yet
C36_Witness ==
    /\ maxPoolSize >= 1
    /\ currentSize = 0
    /\ \E t \in Callers :
          /\ ret[t].op = "dec"
          /\ ret[t].kind = "err"
          /\ ret[t].msg = "Invalid tag: must be exactly 16 bytes"
          /\ ret[t].tag = Const(TagSize + 1, 0)
          /\ Len(ret[t].iv) = IvSize

\* C37: encrypt draws from the RNG exactly when the iv buffer is empty on
\* entry, and then works under the value drawn; with a 12-byte buffer, the
\* one its previous encrypt filled included, it draws nothing and works
\* under the bytes it was given; a successful encrypt leaves in iv the IV it
\* encrypted under.
C37_IvDrawnIffEmpty ==
    [][\A t \in Callers :
         /\ (pc[t] = "idle" /\ call[t].op = "none" /\ call'[t].op = "enc") =>
              \A tagIn \in TagInputs, ivIn \in IvInputs(t) :
                 EncryptCall(t, call'[t].data, ivIn, tagIn) =>
                    IF ivIn = <<>>
                    THEN /\ Cardinality(drawn') = Cardinality(drawn) + 1
                         /\ call'[t].gen
                         /\ call'[t].iv = IvOf(Cardinality(drawn'))
                    ELSE /\ drawn' = drawn
                         /\ ~call'[t].gen
                         /\ call'[t].iv = ivIn
         /\ (drawn' # drawn) => (call[t].op = "none" /\ call'[t].op = "enc" /\ call'[t].gen)
         /\ (pc[t] = "body" /\ call[t].op = "enc" /\ ret'[t].kind = "ok") =>
                /\ ret'[t].iv = call[t].iv
                /\ ret'[t].gen = call[t].gen
                /\ ret'[t].value = GcmUpdate(key_, call[t].iv, call[t].data)]_vars

\* an encrypt was handed the buffer an earlier encrypt had filled from the
\* RNG: it succeeded under that IV again, drawing nothing
C37_Witness ==
    \E t \in Callers :
        /\ ret[t].op = "enc"
        /\ ret[t].kind = "ok"
        /\ ~ret[t].gen
        /\ \E k \in drawn : ret[t].iv = IvOf(k)

\* the container file has the length of the mounted config, block_size x
\* block_count bytes
WholeContainer ==
    /\ block_size_ > 0
    /\ disk[filestream.file].kind = "file"
    /\ Len(disk[filestream.file].bytes) = block_size_ * (total_blocks_ \div block_size_)

\* C38: on a mounted instance over a whole container, when the caller's last
\* read_block or write_block returned an error, its next read_block of a
\* block of the config, its next write_block of such a block with at most
\* block_size bytes, and its next flush succeed.
C38_ErrorsNotSticky ==
    [][\A t \in Clients :
         (/\ Mounted /\ WholeContainer
          /\ sret[t].kind = "err"
          /\ sret[t].op \in {"read", "write"})
            => /\ \A id \in BlockIds :
                    (InRange(id) /\ ReadBlock(t, id)) => sret'[t].kind = "ok"
               /\ (WriteBlockLocked(t) /\ InRange(wframe[t].id)) => sret'[t].kind = "ok"
               /\ Flush(t) => sret'[t].kind = "ok"]_vars

\* C39: writeBlock and the caller's buffer. A call that passes the checks with
\* data shorter than block_size has extended the buffer in place to exactly
\* block_size bytes, the original bytes followed by zeros, and the buffer is
\* that when the call returns; a call rejected for not mounted (-1), id out
\* of range (-2) or oversized data (-3) returns with the buffer as it was
\* passed.
C39_CallerBuffer ==
    [][\A t \in Clients :
         /\ \A id \in BlockIds, data \in Buffers :
              WriteBlockCheck(t, id, data) =>
                IF wframe'[t].active
                  THEN /\ Len(wframe'[t].data) = block_size_
                       /\ SubSeq(wframe'[t].data, 1, Len(data)) = data
                       /\ \A i \in (Len(data) + 1) .. block_size_ : wframe'[t].data[i] = 0
                  ELSE /\ sret'[t].kind = "err"
                       /\ sret'[t].code \in {-1, -2, -3}
                       /\ wbuf'[t] = [held |-> TRUE, data |-> data]
         /\ WriteBlockLocked(t) =>
              /\ wbuf'[t].held
              /\ wbuf'[t].data = wframe[t].data
              /\ Len(wbuf'[t].data) = block_size_]_vars

\* a writeBlock of one byte into a block of two has returned ok and the
\* caller's buffer holds the byte and a zero
C39_Witness ==
    \E t \in Clients :
        /\ sret[t] = SOk("write", <<>>)
        /\ block_size_ = 2
        /\ wbuf[t] = [held |-> TRUE, data |-> <<1, 0>>]

\* C40 (as stated): for every non-empty password and salt, every
\* derived_key_size n >= 1 and either algorithm, verify_password of the key
\* that derive_key gave, with the arguments derive_key was given, returns
\* ok(true).
C40_RoundTripAnySize ==
    (/\ kret.op = "verify"
     /\ kret.derived = "ok"
     /\ kret.given = [password |-> "same", expected |-> "derived"])
       => kret.res = KOk(TRUE)

\* C40 (amended): for every non-empty password and salt, every
\* derived_key_size n in 1 .. 64 and either algorithm, verify_password of the
\* key that derive_key gave, with the arguments derive_key was given, returns
\* ok(true), and it returns ok(false) when the expected key has n bytes and
\* differs from the derived key in any byte.
C40_RoundTrip ==
    (/\ kret.op = "verify"
     /\ kret.derived = "ok"
     /\ kret.n <= 64
     /\ kret.given.password = "same")
       => /\ kret.given.expected = "derived" => kret.res = KOk(TRUE)
          /\ kret.given.expected = "changed" => kret.res = KOk(FALSE)

\* the 64 bytes that derive_key gave under SHA-512 have been verified
C40_Witness ==
    /\ kret.op = "verify"
    /\ kret.n = 64
    /\ kret.algorithm = "PBKDF2_HMAC_SHA512"
    /\ kret.derived = "ok"
    /\ kret.given = [password |-> "same", expected |-> "derived"]
    /\ kret.res = KOk(TRUE)

====
